---------------------------- MODULE Spec2Model ----------------------------
(***************************************************************************)
(* Model of the asynchronous report job wrapper                            *)
(* (backend/src/report/async_service.py) together with the part of the     *)
(* report generator (backend/src/report/excel_generator.py) that decides   *)
(* how a job ends.                                                         *)
(*                                                                         *)
(* The service runs on one asyncio event loop.  A coroutine keeps the loop *)
(* until it awaits; `running` names the background task that currently     *)
(* holds the loop (NoJob when the loop is free to serve another request,   *)
(* another task or the periodic sweep).  The statements of a task are      *)
(* separate steps, so the intermediate values of a job's fields are        *)
(* states of the model, and what other coroutines can see is decided by    *)
(* where the code awaits.                                                  *)
(***************************************************************************)
EXTENDS Integers, Sequences, FiniteSets, TLC

VARIABLES
    jobs,         \* AsyncReportService.jobs: the ids registered in the dict
    obj,          \* the ReportJob objects, by id (a task keeps its object
                  \* also after the sweep has dropped it from the dict)
    pc,           \* position of each job's background task
    running,      \* the task that holds the event loop, or NoJob
    exc,          \* the exception raised in each task, or None
    result_path,  \* the local result_path of each task, or None
    files,        \* the files under the reports directory
    now,          \* the clock, in seconds
    polled,       \* the last call of get_job_status: its id and its answer
    gen           \* what is called next to the job service: the
                  \* ExcelReportGenerator instance of a direct call of
                  \* create_report (its position, workbook and output), a
                  \* call of normalize_color or of the structure parser, the
                  \* response of an endpoint, or the collections and the
                  \* calls in progress of the chat and folder services

vars == <<jobs, obj, pc, running, exc, result_path, files, now, polled, gen>>

-----------------------------------------------------------------------------
(* Bounds *)

MaxJobs == 2
MaxTicks == 2
MaxRows == 2
MaxSheets == 2
MaxColorLen == 6
MaxCalls == 2

-----------------------------------------------------------------------------
(* Values *)

None == "None"
NoJob == 0

PENDING == "pending"
PROCESSING == "processing"
COMPLETED == "completed"
FAILED == "failed"

JobStatus == {PENDING, PROCESSING, COMPLETED, FAILED}

\* No direct call of create_report is under way
GenIdle == [pcg |-> "idle"]

job_ttl == 24 * 3600

JobIds == 1..MaxJobs

\* The clock is read at multiples of the retention window, so that a job is
\* seen at age 0, at age job_ttl (not yet expired) and above job_ttl
TickStep == job_ttl
MaxNow == MaxTicks * TickStep

-----------------------------------------------------------------------------
(* Inputs *)

\* {} : no 'sheets' key
CfgNoSheets == [hasSheets |-> FALSE, sheets |-> <<>>]
\* {"sheets": []}
CfgEmptySheets == [hasSheets |-> TRUE, sheets |-> <<>>]
\* {"sheets": [{"name": "Data"}]}
CfgOneSheet == [hasSheets |-> TRUE, sheets |-> <<[isDict |-> TRUE, name |-> "Data"]>>]
\* {"sheets": ["oops"]} : an entry that is not a mapping
CfgBadSheet == [hasSheets |-> TRUE, sheets |-> <<[isDict |-> FALSE, name |-> "oops"]>>]

\* Charts: one of each kind of entry _add_charts tells apart
ChartValid == [type |-> "bar", title |-> "valid", data_range |-> "A1:B3",
               x_axis_title |-> "x", position |-> "E2"]
ChartBadRange == [type |-> "line", title |-> "bad", data_range |-> "not a range"]
ChartOtherSheet == [type |-> "pie", title |-> "other", data_range |-> "Data!A1:A3",
                    x_axis_title |-> "x"]
ChartUnknownType == [type |-> "scatter", title |-> "unknown", data_range |-> "A1:B3"]
ChartNoRange == [title |-> "empty"]

\* {"sheets": [{"name": "Data", "charts": [...]}]} : a sheet with a chart
\* whose data_range cannot be resolved and a valid chart
CfgCharts ==
    [hasSheets |-> TRUE,
     sheets |-> <<[isDict |-> TRUE, name |-> "Data",
                   charts |-> <<ChartBadRange, ChartValid>>]>>]

\* The requests submitted: a configuration and an optional filename
Requests ==
    {[config |-> CfgNoSheets, filename |-> None],
     [config |-> CfgCharts, filename |-> "q"],
     [config |-> CfgBadSheet, filename |-> "q.xlsx"]}

-----------------------------------------------------------------------------
(* Exception messages *)

MsgMakedirs == "[Errno 13] Permission denied: 'reports'"
MsgSheetNotDict == "'str' object has no attribute 'get'"
MsgSave == "[Errno 13] Permission denied"
MsgNoGetWarnings == "'ExcelReportGenerator' object has no attribute 'get_warnings'"


-----------------------------------------------------------------------------
(* Strings and paths *)

\* str.endswith
EndsWith(s, suffix) ==
    /\ Len(s) >= Len(suffix)
    /\ SubSeq(s, Len(s) - Len(suffix) + 1, Len(s)) = suffix

\* datetime.strftime("%Y%m%d_%H%M%S"): one string per second of the clock
Strftime(t) == ToString(t)

\* datetime.isoformat()
IsoFormat(t) == ToString(t)

\* create_report_job, lines 52-57: the name the job's file gets
ResolveFilename(filename, t) ==
    IF filename = None \/ filename = ""
    THEN "report_" \o Strftime(t) \o ".xlsx"
    ELSE IF ~EndsWith(filename, ".xlsx")
         THEN filename \o ".xlsx"
         ELSE filename

\* os.path.join(os.getcwd(), "reports")
ReportsDir == "reports"

\* os.path.join(reports_dir, filename): a name that starts with '/' is an
\* absolute path, and join drops every component before it
OutputPath(filename) ==
    IF Len(filename) > 0 /\ SubSeq(filename, 1, 1) = "/"
    THEN filename
    ELSE ReportsDir \o "/" \o filename

\* os.path.exists
Exists(fs, path) == \E f \in fs : f.path = path

\* Workbook.save(path): creates or replaces the file at path
WriteFile(fs, path, content) ==
    {f \in fs : f.path # path} \cup {[path |-> path, content |-> content]}

\* os.remove(path)
RemoveFile(fs, path) == {f \in fs : f.path # path}

-----------------------------------------------------------------------------
(* ReportJob *)

\* ReportJob.__init__.  The field updated_at, which the code assigns next to
\* every change of status or progress and only to_dict reads, is left out of
\* the record.
NewReportJob(job_id, config, filename, t) ==
    [job_id        |-> job_id,
     config        |-> config,
     filename      |-> filename,
     status        |-> PENDING,
     created_at    |-> t,
     error_message |-> None,
     file_path     |-> None,
     progress      |-> 0,
     warnings      |-> <<>>]

\* ReportJob.to_dict
to_dict(job) ==
    [kind          |-> "dict",
     job_id        |-> job.job_id,
     status        |-> job.status,
     created_at    |-> IsoFormat(job.created_at),
     error_message |-> job.error_message,
     file_path     |-> job.file_path,
     progress      |-> job.progress,
     filename      |-> job.filename,
     warnings      |-> job.warnings]

\* What get_job_status returns for an id that is not in the registry
NotFound == [kind |-> "none"]

\* No call of get_job_status yet
Unpolled == [job_id |-> NoJob, result |-> NotFound]

-----------------------------------------------------------------------------
(* ExcelReportGenerator *)

\* The methods the class ExcelReportGenerator defines
GeneratorMethods ==
    {"__init__", "create_report", "_create_sheet",
     "_apply_workbook_properties", "_apply_sheet_properties", "_add_headers",
     "_add_data", "_apply_formatting", "_apply_cell_style", "_apply_borders",
     "_apply_alternating_rows", "_add_charts", "_auto_adjust_columns"}

\* Attribute lookup of a method on a generator instance
HasMethod(name) == name \in GeneratorMethods

\* A default sheet that keeps the title of the workbook's first sheet
DefaultSheetsKeepsTitle(config) ==
    IF ~config.hasSheets \/ config.sheets = <<>>
    THEN [config EXCEPT !.hasSheets = TRUE,
                        !.sheets = <<[isDict |-> TRUE, name |-> "Sheet"]>>]
    ELSE config

\* create_report, lines 37-39: a missing or empty 'sheets' becomes one
\* default sheet, stored into the caller's config
DefaultSheets(config) ==
    IF ~config.hasSheets \/ config.sheets = <<>>
    THEN [config EXCEPT !.hasSheets = TRUE,
                        !.sheets = <<[isDict |-> TRUE, name |-> "Sheet1"]>>]
    ELSE config

\* _create_sheet raises on its first line when the entry has no .get
SheetRaises(sheet_config) == ~sheet_config.isDict

\* ExcelReportGenerator.create_report(config, output_path), with saveOk the
\* outcome of Workbook.save on the file system.  Gives the exception
\* message or None, the config as the call leaves it, and the returned path.
create_report(config, output_path, saveOk) ==
    LET cfg == DefaultSheets(config)
        bad == \E i \in 1..Len(cfg.sheets) : SheetRaises(cfg.sheets[i])
    IN  IF bad
        THEN [raised |-> "Error creating Excel report: " \o MsgSheetNotDict,
              config |-> cfg, path |-> None, saved |-> FALSE]
        ELSE IF ~saveOk
        THEN [raised |-> "Error creating Excel report: " \o MsgSave,
              config |-> cfg, path |-> None, saved |-> FALSE]
        ELSE [raised |-> None,
              config |-> cfg, path |-> output_path, saved |-> TRUE]

-----------------------------------------------------------------------------
(* AsyncReportService *)

Created == DOMAIN obj

\* An event loop that serves other coroutines between any two statements of
\* a task
LoopAlwaysFree == TRUE

\* The event loop is free: no background task is between its first and its
\* last statement (a task contains no await, so it never gives the loop up)
LoopFree == running = NoJob

Init ==
    /\ jobs = {}
    /\ obj = <<>>
    /\ pc = [id \in JobIds |-> "none"]
    /\ running = NoJob
    /\ exc = [id \in JobIds |-> None]
    /\ result_path = [id \in JobIds |-> None]
    /\ files = {}
    /\ now = 0
    /\ polled = Unpolled
    /\ gen = GenIdle

\* create_report_job: a fresh uuid4, the record put in the dict, the task
\* scheduled with asyncio.create_task
CreateReportJob(config, filename) ==
    LET job_id == Cardinality(Created) + 1
        job == NewReportJob(job_id, config, ResolveFilename(filename, now), now)
    IN  /\ LoopFree
        /\ job_id \in JobIds
        /\ obj' = obj @@ (job_id :> job)
        /\ jobs' = jobs \cup {job_id}
        /\ pc' = [pc EXCEPT ![job_id] = "scheduled"]
        /\ UNCHANGED <<running, exc, result_path, files, now, polled, gen>>

\* get_job_status
get_job_status(job_id) ==
    IF job_id \in jobs THEN to_dict(obj[job_id]) ELSE NotFound

\* A status call that takes the job out of the registry (dict.pop for
\* dict.get)
GetJobStatusPops(job_id) ==
    /\ LoopFree
    /\ polled' = [job_id |-> job_id, result |-> get_job_status(job_id)]
    /\ jobs' = jobs \ {job_id}
    /\ UNCHANGED <<obj, pc, running, exc, result_path, files, now, gen>>

GetJobStatus(job_id) ==
    /\ LoopFree
    /\ polled' = [job_id |-> job_id, result |-> get_job_status(job_id)]
    /\ UNCHANGED <<jobs, obj, pc, running, exc, result_path, files, now, gen>>

\* _process_report_job, lines 77-79: the scheduled task gets the loop
TaskStart(id) ==
    /\ LoopFree
    /\ pc[id] = "scheduled"
    /\ running' = id
    /\ obj' = [obj EXCEPT ![id].status = PROCESSING,
                          ![id].progress = 10]
    /\ pc' = [pc EXCEPT ![id] = "makedirs"]
    /\ UNCHANGED <<jobs, exc, result_path, files, now, polled, gen>>

\* lines 82-86: os.makedirs succeeds or raises OSError
TaskMakeDirs(id) ==
    /\ running = id
    /\ pc[id] = "makedirs"
    /\ \E ok \in BOOLEAN :
         IF ok
         THEN /\ obj' = [obj EXCEPT ![id].progress = 30]
              /\ pc' = [pc EXCEPT ![id] = "path"]
              /\ exc' = exc
         ELSE /\ exc' = [exc EXCEPT ![id] = MsgMakedirs]
              /\ pc' = [pc EXCEPT ![id] = "except"]
              /\ obj' = obj
    /\ UNCHANGED <<jobs, running, result_path, files, now, polled, gen>>

\* lines 89-92
TaskOutputPath(id) ==
    /\ running = id
    /\ pc[id] = "path"
    /\ obj' = [obj EXCEPT ![id].progress = 50]
    /\ pc' = [pc EXCEPT ![id] = "generate"]
    /\ UNCHANGED <<jobs, running, exc, result_path, files, now, polled, gen>>

\* lines 95-97: the generator renders job.config and saves the workbook
TaskGenerate(id) ==
    /\ running = id
    /\ pc[id] = "generate"
    /\ \E saveOk \in BOOLEAN :
         LET r == create_report(obj[id].config, OutputPath(obj[id].filename), saveOk)
         IN  /\ obj' = [obj EXCEPT ![id].config = r.config]
             /\ IF r.raised # None
                THEN /\ exc' = [exc EXCEPT ![id] = r.raised]
                     /\ pc' = [pc EXCEPT ![id] = "except"]
                     /\ UNCHANGED <<result_path, files>>
                ELSE /\ files' = WriteFile(files, r.path, id)
                     /\ result_path' = [result_path EXCEPT ![id] = r.path]
                     /\ pc' = [pc EXCEPT ![id] = "collect"]
                     /\ exc' = exc
    /\ UNCHANGED <<jobs, running, now, polled, gen>>

\* lines 105-109: the job marked completed
MarkCompleted(job, path) ==
    [job EXCEPT !.status = COMPLETED,
                !.file_path = path,
                !.progress = 100]

\* lines 99-109: generator.get_warnings() and, when that call returns, the
\* job marked completed and the loop given back
TaskCollect(id) ==
    /\ running = id
    /\ pc[id] = "collect"
    /\ IF HasMethod("get_warnings")
       THEN /\ obj' = [obj EXCEPT ![id] =
                          MarkCompleted([obj[id] EXCEPT !.warnings = <<>>,
                                                        !.progress = 90],
                                        result_path[id])]
            /\ pc' = [pc EXCEPT ![id] = "done"]
            /\ running' = NoJob
            /\ exc' = exc
       ELSE /\ exc' = [exc EXCEPT ![id] = MsgNoGetWarnings]
            /\ pc' = [pc EXCEPT ![id] = "except"]
            /\ UNCHANGED <<obj, running>>
    /\ UNCHANGED <<jobs, result_path, files, now, polled, gen>>

\* A handler written as 'except OSError'
CatchesOnlyOSError(e) == e = MsgMakedirs

\* line 111: except Exception catches every exception the body can raise
Catches(e) == TRUE

\* A handler that puts the job back in the queue
ExceptStatusRetry(job, e) == [job EXCEPT !.status = PENDING]

\* A handler that also resets the progress
ExceptStatusResetsProgress(job, e) ==
    [job EXCEPT !.status = FAILED,
                !.progress = 0]

\* A handler whose first assignment is the message
ExceptStatusMessageFirst(job, e) == [job EXCEPT !.error_message = e]

\* line 112: job.status = JobStatus.FAILED
ExceptStatus(job, e) == [job EXCEPT !.status = FAILED]

\* A handler that stores no message
ExceptMessageDropped(job, e) == job

\* line 113: job.error_message = str(e)
ExceptMessage(job, e) == [job EXCEPT !.error_message = e]

\* lines 111-112: the exception in flight reaches the except clause, which
\* sets the status; an exception the clause does not catch ends the task
TaskExcept(id) ==
    /\ running = id
    /\ pc[id] = "except"
    /\ IF Catches(exc[id])
       THEN /\ obj' = [obj EXCEPT ![id] = ExceptStatus(obj[id], exc[id])]
            /\ pc' = [pc EXCEPT ![id] = "except_msg"]
            /\ running' = running
       ELSE /\ obj' = obj
            /\ pc' = [pc EXCEPT ![id] = "crashed"]
            /\ running' = NoJob
    /\ UNCHANGED <<jobs, exc, result_path, files, now, polled, gen>>

\* lines 113-114: the message stored; the task ends and the loop is given
\* back
TaskExceptMessage(id) ==
    /\ running = id
    /\ pc[id] = "except_msg"
    /\ obj' = [obj EXCEPT ![id] = ExceptMessage(obj[id], exc[id])]
    /\ pc' = [pc EXCEPT ![id] = "done"]
    /\ running' = NoJob
    /\ UNCHANGED <<jobs, exc, result_path, files, now, polled, gen>>

-----------------------------------------------------------------------------
(* The retention sweep *)

\* line 122: (current_time - job.created_at).total_seconds() > self.job_ttl
Expired(job, t) == t - job.created_at > job_ttl

\* lines 124-128 for one expired job: the file is removed when file_path is
\* set and the file exists; failing holds the paths on which os.remove
\* raises, and the exception is passed over
RemoveJobFile(job, fs, failing) ==
    IF job.file_path # None /\ Exists(fs, job.file_path)
    THEN IF job.file_path \in failing
         THEN fs
         ELSE RemoveFile(fs, job.file_path)
    ELSE fs

\* lines 119-129: the loop over self.jobs.items(), in insertion order, from
\* the i-th id on; acc holds jobs_to_remove and the files so far
RECURSIVE SweepLoop(_, _, _, _, _, _)
SweepLoop(i, reg, objs, t, failing, acc) ==
    IF i > MaxJobs + 1
    THEN acc
    ELSE IF i \in reg /\ Expired(objs[i], t)
         THEN SweepLoop(i + 1, reg, objs, t, failing,
                        [jobs_to_remove |-> acc.jobs_to_remove \cup {i},
                         files |-> RemoveJobFile(objs[i], acc.files, failing)])
         ELSE SweepLoop(i + 1, reg, objs, t, failing, acc)

\* A sweep that stops after the first job it removes
cleanup_first_expired_only(reg, objs, fs, t, failing) ==
    LET expired == {id \in reg : Expired(objs[id], t)}
        first == {id \in expired : \A other \in expired : id <= other}
        r == SweepLoop(1, first, objs, t, failing,
                       [jobs_to_remove |-> {}, files |-> fs])
    IN  [jobs |-> reg \ r.jobs_to_remove, files |-> r.files, raised |-> FALSE]

\* A sweep in which a failing os.remove is not caught: the exception leaves
\* the function before any entry is deleted
cleanup_remove_error_propagates(reg, objs, fs, t, failing) ==
    LET r == SweepLoop(1, reg, objs, t, failing,
                       [jobs_to_remove |-> {}, files |-> fs])
        failed == \E id \in r.jobs_to_remove :
                      /\ objs[id].file_path \in failing
                      /\ Exists(fs, objs[id].file_path)
    IN  IF failed
        THEN [jobs |-> reg, files |-> r.files, raised |-> TRUE]
        ELSE [jobs |-> reg \ r.jobs_to_remove, files |-> r.files, raised |-> FALSE]

\* cleanup_old_jobs as a function of the registry, the job objects, the
\* files, the clock and the removals that fail: the registry and the files
\* it leaves, and whether an exception left it (del of a missing key)
cleanup_old_jobs(reg, objs, fs, t, failing) ==
    LET r == SweepLoop(1, reg, objs, t, failing,
                       [jobs_to_remove |-> {}, files |-> fs])
    IN  [jobs |-> reg \ r.jobs_to_remove,
         files |-> r.files,
         raised |-> ~(r.jobs_to_remove \subseteq reg)]

\* The paths of the files in fs
Paths(fs) == {f.path : f \in fs}

\* cleanup_old_jobs, run by start_cleanup_task when its sleep ends
CleanupOldJobs ==
    /\ LoopFree
    /\ \E failing \in SUBSET Paths(files) :
         LET r == cleanup_old_jobs(jobs, obj, files, now, failing)
         IN  /\ jobs' = r.jobs
             /\ files' = r.files
    /\ UNCHANGED <<obj, pc, running, exc, result_path, now, polled, gen>>

\* The clock advances while the loop is idle.  It counts from the first
\* request: only differences of clock readings are compared.
Tick ==
    /\ LoopFree
    /\ Created # {}
    /\ now + TickStep <= MaxNow
    /\ now' = now + TickStep
    /\ UNCHANGED <<jobs, obj, pc, running, exc, result_path, files, polled, gen>>

-----------------------------------------------------------------------------

Next ==
    \/ \E req \in Requests : CreateReportJob(req.config, req.filename)
    \/ \E job_id \in JobIds : GetJobStatus(job_id)
    \/ \E id \in JobIds : TaskStart(id)
    \/ \E id \in JobIds : TaskMakeDirs(id)
    \/ \E id \in JobIds : TaskOutputPath(id)
    \/ \E id \in JobIds : TaskGenerate(id)
    \/ \E id \in JobIds : TaskCollect(id)
    \/ \E id \in JobIds : TaskExcept(id)
    \/ \E id \in JobIds : TaskExceptMessage(id)
    \/ CleanupOldJobs
    \/ Tick

Spec == Init /\ [][Next]_vars

\* The event loop runs every task that asyncio.create_task scheduled, and a
\* task that has the loop runs on to its end
TaskStep(id) ==
    \/ TaskStart(id)
    \/ TaskMakeDirs(id)
    \/ TaskOutputPath(id)
    \/ TaskGenerate(id)
    \/ TaskCollect(id)
    \/ TaskExcept(id)
    \/ TaskExceptMessage(id)

FairSpec == Spec /\ \A id \in JobIds : WF_vars(TaskStep(id))

-----------------------------------------------------------------------------
(* cleanup_old_jobs on the registries it is written for *)

\* The job of request req, created at t, as its task leaves it: still
\* pending, failed in the except clause, or completed by lines 105-109
JobAs(kind, req, t) ==
    LET job == NewReportJob(0, req.config, ResolveFilename(req.filename, t), t)
        started == [job EXCEPT !.status = PROCESSING, !.progress = 50]
        r == create_report(job.config, OutputPath(job.filename), TRUE)
        rendered == [started EXCEPT !.config = r.config]
    IN  CASE kind = PENDING -> job
          [] kind = FAILED ->
                IF r.raised # None
                THEN ExceptMessage(ExceptStatus(rendered, r.raised), r.raised)
                ELSE ExceptMessage(ExceptStatus(rendered, MsgNoGetWarnings),
                                   MsgNoGetWarnings)
          [] kind = COMPLETED ->
                MarkCompleted([rendered EXCEPT !.progress = 90], r.path)

\* The kinds of job request req can end as
KindsOf(req) ==
    IF create_report(req.config, "", TRUE).raised # None
    THEN {PENDING, FAILED}
    ELSE {PENDING, FAILED, COMPLETED}

Times == {k * TickStep : k \in 0..MaxTicks}

\* The registries given to the sweep: up to MaxJobs jobs, created in the
\* order of their ids, each pending, failed or completed; the file of a
\* job that rendered is on storage or has been deleted meanwhile
InitSweep ==
    \E n \in 0..MaxJobs :
    \E reqs \in [1..n -> Requests], at \in [1..n -> Times] :
    \E kinds \in [1..n -> {PENDING, FAILED, COMPLETED}] :
       /\ \A i \in 1..n : kinds[i] \in KindsOf(reqs[i])
       /\ \A i \in 1..n : \A j \in 1..n : i < j => at[i] <= at[j]
       /\ obj = [i \in 1..n |->
                    [JobAs(kinds[i], reqs[i], at[i]) EXCEPT !.job_id = i]]
       /\ jobs = 1..n
       /\ pc = [id \in JobIds |->
                   IF id > n THEN "none"
                   ELSE IF kinds[id] = PENDING THEN "scheduled" ELSE "done"]
       /\ running = NoJob
       /\ exc = [id \in JobIds |->
                    IF id <= n /\ kinds[id] = FAILED
                    THEN obj[id].error_message ELSE None]
       /\ result_path = [id \in JobIds |->
                    IF id <= n /\ kinds[id] # PENDING
                          /\ obj[id].error_message \in {None, MsgNoGetWarnings}
                    THEN OutputPath(obj[id].filename) ELSE None]
       /\ \E written \in SUBSET {id \in 1..n : result_path[id] # None} :
             files = {[path |-> result_path[id], content |-> id] : id \in written}
       /\ now = IF n = 0 THEN 0 ELSE at[n]
       /\ polled = Unpolled
       /\ gen = GenIdle

NextSweep ==
    \/ CleanupOldJobs
    \/ \E job_id \in JobIds : GetJobStatus(job_id)
    \/ Tick

SpecSweep == InitSweep /\ [][NextSweep]_vars

-----------------------------------------------------------------------------
(* Job lifecycle *)

Final == {COMPLETED, FAILED}

\* The task of job id has ended
Ended(id) == pc[id] \in {"done", "crashed"}

\* C1: the status of every job object only moves along pending ->
\* processing -> (completed | failed); no step moves it backward, and a
\* completed or failed job keeps its status in every later step.
C1_StatusForward ==
    [][\A id \in Created :
          LET a == obj[id].status
              b == obj'[id].status
          IN  \/ a = b
              \/ a = PENDING /\ b = PROCESSING
              \/ a = PROCESSING /\ b \in Final]_vars

\* A job went through pending, processing and failed, and the sweep has
\* since dropped it from the registry
C1_Witness ==
    \E id \in Created :
        /\ obj[id].status = FAILED
        /\ Ended(id)
        /\ id \notin jobs

\* C2: the progress of every job is an integer in 0..100 in every state, and
\* no step decreases it, the steps of the failure path included.
C2_ProgressMonotonic ==
    /\ [](\A id \in Created : obj[id].progress \in 0..100)
    /\ [][\A id \in Created : obj'[id].progress >= obj[id].progress]_vars

\* A job failed after its progress had reached 50
C2_Witness ==
    \E id \in Created :
        /\ obj[id].status = FAILED
        /\ obj[id].progress = 50

\* C3: a job whose task has ended is completed with progress 100 and
\* file_path the written path when create_report returned, and failed with
\* an error message otherwise.
C3_RenderedJobCompletes ==
    \A id \in Created :
        Ended(id) =>
            IF result_path[id] # None
            THEN /\ obj[id].status = COMPLETED
                 /\ obj[id].progress = 100
                 /\ obj[id].file_path = result_path[id]
            ELSE /\ obj[id].status = FAILED
                 /\ obj[id].error_message # None

\* C4: an exception raised in a job's task is caught by the task: the task
\* ends normally with the job failed and error_message the exception's
\* message, and the steps that handle it change neither the registry, nor
\* another job, nor the last answer given to a poller, and free the loop.
C4_ExceptionCaptured ==
    /\ [](\A id \in JobIds :
            (Ended(id) /\ exc[id] # None) =>
                /\ pc[id] = "done"
                /\ obj[id].status = FAILED
                /\ obj[id].error_message = exc[id])
    /\ [][\A id \in JobIds :
            (pc[id] \in {"except", "except_msg"} /\ pc'[id] # pc[id]) =>
                /\ Ended(id)' => running' = NoJob
                /\ jobs' = jobs
                /\ polled' = polled
                /\ \A other \in Created \ {id} : obj'[other] = obj[other]]_vars

\* A task ended on the exception of the missing get_warnings while another
\* job waits, untouched, for its own task
C4_Witness ==
    \E id \in Created, other \in Created :
        /\ pc[id] = "done"
        /\ exc[id] = MsgNoGetWarnings
        /\ obj[id].error_message = MsgNoGetWarnings
        /\ pc[other] = "scheduled"
        /\ obj[other].status = PENDING

\* C5: in every state of every job, error_message is set only if the status
\* is failed and file_path is set only if the status is completed.
C5_FieldsMatchStatus ==
    \A id \in Created :
        /\ obj[id].error_message # None => obj[id].status = FAILED
        /\ obj[id].file_path # None => obj[id].status = COMPLETED

\* A failed job carries an error message and no file_path, although its
\* file was written
C5_Witness ==
    \E id \in Created :
        /\ obj[id].status = FAILED
        /\ obj[id].error_message # None
        /\ obj[id].file_path = None
        /\ result_path[id] # None

-----------------------------------------------------------------------------
(* What get_job_status shows *)

\* Position of a status in pending, processing, (completed | failed)
StatusRank(status) ==
    CASE status = PENDING -> 0
      [] status = PROCESSING -> 1
      [] status \in Final -> 2

\* A call of get_job_status for job id can be served and answers processing
ProcessingObservable(id) ==
    /\ LoopFree
    /\ id \in jobs
    /\ obj[id].status = PROCESSING

\* C6: two successive answers of get_job_status for the same job show a
\* progress that does not decrease and a status that does not regress, and a
\* job that reaches completed or failed has been processing at a point where
\* a call of get_job_status can be served.
C6_ProcessingObservable ==
    /\ [][(/\ polled.job_id = polled'.job_id
           /\ polled.result.kind = "dict"
           /\ polled'.result.kind = "dict") =>
              /\ polled'.result.progress >= polled.result.progress
              /\ StatusRank(polled'.result.status) >= StatusRank(polled.result.status)
              /\ polled.result.status \in Final =>
                     polled'.result.status = polled.result.status]_vars
    /\ \A id \in JobIds :
          \/ [](~(id \in Created /\ obj[id].status \in Final))
          \/ <>ProcessingObservable(id)

\* C7: every answer of get_job_status is a consistent snapshot: pending
\* comes with progress 0, processing with a progress of at least 10,
\* completed with progress 100 and a file_path, failed with an error
\* message.
C7_ConsistentSnapshot ==
    polled.result.kind = "dict" =>
        LET d == polled.result
        IN  /\ d.status = PENDING => d.progress = 0
            /\ d.status = PROCESSING => d.progress >= 10
            /\ d.status = COMPLETED => d.progress = 100 /\ d.file_path # None
            /\ d.status = FAILED => d.error_message # None

\* get_job_status answered for a failed job while the task of another job
\* was still to run
C7_Witness ==
    /\ polled.result.kind = "dict"
    /\ polled.result.status = FAILED
    /\ polled.result.error_message # None
    /\ polled.result.progress = 50
    /\ \E other \in Created : pc[other] = "scheduled"

-----------------------------------------------------------------------------
(* The retention sweep: what a run leaves *)

\* C8: a run of cleanup_old_jobs leaves no job in the registry whose age
\* exceeded job_ttl, so that get_job_status answers not-found for it, and
\* the file such a job wrote is no longer on storage.
C8_SweepPurgesJobAndFile ==
    [][CleanupOldJobs =>
          \A id \in jobs :
              Expired(obj[id], now) =>
                  /\ id \notin jobs'
                  /\ get_job_status(id)' = NotFound
                  /\ result_path[id] # None => ~Exists(files', result_path[id])]_vars


\* All sets of paths on which os.remove may fail
Failings(fs) == SUBSET Paths(fs)

\* C9: cleanup_old_jobs is idempotent: a second run at the same clock, with
\* no job created in between, leaves the registry and the files as the
\* first run left them, whatever removals fail in either run, and neither
\* run raises.
C9_SweepIdempotent ==
    LoopFree =>
        \A f1 \in Failings(files) :
            LET r1 == cleanup_old_jobs(jobs, obj, files, now, f1)
            IN  \A f2 \in Failings(r1.files) :
                    LET r2 == cleanup_old_jobs(r1.jobs, obj, r1.files, now, f2)
                    IN  /\ ~r1.raised
                        /\ ~r2.raised
                        /\ r2.jobs = r1.jobs
                        /\ r2.files = r1.files

\* A sweep has purged a completed job and removed its file while a younger
\* job stays registered
C9_Witness ==
    \E id \in Created \ jobs, other \in jobs :
        /\ obj[id].status = COMPLETED
        /\ ~Exists(files, obj[id].file_path)
        /\ ~Expired(obj[other], now)

\* C10: whatever removals of files fail during cleanup_old_jobs, the run
\* does not raise, every expired job is removed from the registry and every
\* other job stays; the files whose removal failed stay on storage.
C10_RemovalFailureSwallowed ==
    LoopFree =>
        \A failing \in Failings(files) :
            LET r == cleanup_old_jobs(jobs, obj, files, now, failing)
            IN  /\ ~r.raised
                /\ r.jobs = {id \in jobs : ~Expired(obj[id], now)}
                /\ \A f \in files : f.path \in failing => f \in r.files

\* Two jobs have been purged by the sweep; the file of one is still on
\* storage (its removal failed), the file of the other is gone
C10_Witness ==
    \E id \in Created \ jobs, other \in Created \ jobs :
        /\ obj[id].file_path # None
        /\ Exists(files, obj[id].file_path)
        /\ obj[other].file_path # None
        /\ ~Exists(files, obj[other].file_path)


-----------------------------------------------------------------------------
(* Termination of jobs *)

\* C11: under fair scheduling of the background tasks, every job whose task
\* was scheduled eventually has its task ended with status completed or
\* failed: no operation leaves a job pending or processing forever.
C11_JobsTerminate ==
    \A id \in JobIds :
        [](pc[id] = "scheduled" =>
              <>(/\ Ended(id)
                 /\ obj[id].status \in Final))

\* Every job that can be submitted has been submitted and has reached its
\* final status
C11_Witness ==
    /\ Created = JobIds
    /\ \A id \in JobIds :
          /\ pc[id] = "done"
          /\ obj[id].status \in Final


-----------------------------------------------------------------------------
(* Python values *)

\* A scalar value of a cell: its Python type and the text str() gives for it
StrValue(s) == [type |-> "str", text |-> s]
IntValue(n) == [type |-> "int", text |-> ToString(n)]
NoneValue == [type |-> "NoneType", text |-> "None"]

\* str(value)
str(value) == value.text

\* A dict with string keys is a record of the keys it holds; {} is the
\* empty function
EmptyDict == <<>>

\* key in d
Has(d, key) == key \in DOMAIN d

\* d.get(key, default)
Get(d, key, default) == IF key \in DOMAIN d THEN d[key] ELSE default

\* max of a non-empty set of numbers
Max(S) == CHOOSE m \in S : \A x \in S : x <= m

\* min(a, b)
Min(a, b) == IF a <= b THEN a ELSE b

\* sub in s
Contains(s, sub) ==
    \E i \in 1..(Len(s) - Len(sub) + 1) : SubSeq(s, i, i + Len(sub) - 1) = sub

-----------------------------------------------------------------------------
(* openpyxl: cells, worksheets, workbooks *)

\* Font size of a Font() built without a size
NoSize == 0

\* The style objects of a cell that was never styled
DefaultFont ==
    [name |-> "Calibri", size |-> 11, bold |-> FALSE, italic |-> FALSE,
     color |-> None]
NoFill == [color |-> None, fill_type |-> None]
DefaultAlignment == [horizontal |-> None, vertical |-> None, wrap_text |-> FALSE]
NoBorder == [left |-> None, right |-> None, top |-> None, bottom |-> None]

\* A cell as ws.cell(row, column) creates it
NewCell ==
    [value |-> NoneValue, font |-> DefaultFont, fill |-> NoFill,
     alignment |-> DefaultAlignment, border |-> NoBorder]

\* PatternFill(start_color=color, end_color=color, fill_type="solid")
SolidFill(color) == [color |-> color, fill_type |-> "solid"]

\* Workbook.create_sheet(title) / the sheet a new Workbook holds
NewWorksheet(title) ==
    [title |-> title, cells |-> [p \in {} |-> NewCell], charts |-> <<>>,
     widths |-> [l \in {} |-> 0], freeze_panes |-> None, tab_color |-> None,
     zoom |-> None]

\* The cells a worksheet holds (every cell ever asked for, valued or not)
Positions(ws) == DOMAIN ws.cells

\* ws.cell(row, column): the cell at the position, a new one when the
\* worksheet has none there
Cell(ws, row, column) ==
    IF <<row, column>> \in Positions(ws) THEN ws.cells[<<row, column>>] ELSE NewCell

\* The worksheet after ws.cell(row, column) has been given the cell
SetCell(ws, row, column, cell) ==
    [ws EXCEPT !.cells =
        [p \in Positions(ws) \cup {<<row, column>>} |->
            IF p = <<row, column>> THEN cell ELSE ws.cells[p]]]

\* Worksheet.max_row, Worksheet.max_column
max_row(ws) ==
    IF Positions(ws) = {} THEN 1 ELSE Max({p[1] : p \in Positions(ws)})
max_column(ws) ==
    IF Positions(ws) = {} THEN 1 ELSE Max({p[2] : p \in Positions(ws)})

\* openpyxl.utils.get_column_letter, for the columns A..Z
get_column_letter(column) ==
    SubSeq("ABCDEFGHIJKLMNOPQRSTUVWXYZ", column, column)

\* Workbook(): one worksheet titled "Sheet", which is the active one
NewWorkbook ==
    [sheets |-> <<NewWorksheet("Sheet")>>,
     properties |-> [title |-> None, creator |-> "openpyxl", description |-> None]]

\* Workbook.active: the first worksheet, None when there is none
HasActive(wb) == wb.sheets # <<>>

\* The titles in a workbook
Titles(wb) == {wb.sheets[k].title : k \in 1..Len(wb.sheets)}

\* Workbook.create_sheet(title): a title already in use gets a number
\* appended
RECURSIVE UniqueTitle(_, _, _)
UniqueTitle(wb, title, n) ==
    LET candidate == IF n = 0 THEN title ELSE title \o ToString(n)
    IN  IF candidate \in Titles(wb) THEN UniqueTitle(wb, title, n + 1) ELSE candidate


-----------------------------------------------------------------------------
(* ExcelReportGenerator: the phases of a sheet *)

\* _apply_sheet_properties
apply_sheet_properties(ws, properties) ==
    LET tabbed == IF Has(properties, "tab_color")
                  THEN [ws EXCEPT !.tab_color = properties.tab_color] ELSE ws
    IN  IF Has(properties, "zoom")
        THEN [tabbed EXCEPT !.zoom = properties.zoom] ELSE tabbed

\* _apply_cell_style: colours are handed to openpyxl as the configuration
\* gives them
apply_cell_style(cell, style) ==
    LET fonted ==
            IF Has(style, "font")
            THEN [cell EXCEPT !.font =
                     [name   |-> Get(style.font, "name", "Calibri"),
                      size   |-> Get(style.font, "size", 11),
                      bold   |-> Get(style.font, "bold", FALSE),
                      italic |-> Get(style.font, "italic", FALSE),
                      color  |-> Get(style.font, "color", "000000")]]
            ELSE cell
        filled ==
            IF Has(style, "fill")
            THEN [fonted EXCEPT !.fill = SolidFill(Get(style.fill, "color", "FFFFFF"))]
            ELSE fonted
        aligned ==
            IF Has(style, "alignment")
            THEN [filled EXCEPT !.alignment =
                     [horizontal |-> Get(style.alignment, "horizontal", "general"),
                      vertical   |-> Get(style.alignment, "vertical", "bottom"),
                      wrap_text  |-> Get(style.alignment, "wrap_text", FALSE)]]
            ELSE filled
    IN  IF Has(style, "border")
        THEN LET side == Get(style.border, "style", "thin")
             IN  [aligned EXCEPT !.border =
                     [left   |-> IF Get(style.border, "left", TRUE) THEN side ELSE None,
                      right  |-> IF Get(style.border, "right", TRUE) THEN side ELSE None,
                      top    |-> IF Get(style.border, "top", TRUE) THEN side ELSE None,
                      bottom |-> IF Get(style.border, "bottom", TRUE) THEN side ELSE None]]
        ELSE aligned

\* _add_headers, lines 133-137: the style of a header that configures none
DefaultHeaderStyle(cell) ==
    [cell EXCEPT
        !.font = [name |-> None, size |-> NoSize, bold |-> TRUE,
                  italic |-> FALSE, color |-> "FFFFFF"],
        !.fill = SolidFill("366092"),
        !.alignment = [horizontal |-> "center", vertical |-> "center",
                       wrap_text |-> FALSE]]

\* _add_headers, the loop from header col_idx on
RECURSIVE AddHeadersFrom(_, _, _)
AddHeadersFrom(ws, headers, col_idx) ==
    IF col_idx > Len(headers)
    THEN ws
    ELSE LET header == headers[col_idx]
             cell == [Cell(ws, 1, col_idx) EXCEPT
                         !.value = StrValue(Get(header, "title",
                                                "Column " \o ToString(col_idx)))]
             styled == IF Has(header, "style")
                       THEN apply_cell_style(cell, header.style)
                       ELSE DefaultHeaderStyle(cell)
         IN  AddHeadersFrom(SetCell(ws, 1, col_idx, styled), headers, col_idx + 1)

\* _add_headers
add_headers(ws, headers) == AddHeadersFrom(ws, headers, 1)

\* Data that always starts below row 1, whether or not a header row was written
StartRowBelowHeaderRow(headers) == 2

\* _add_data, line 143: the row of the first data row
StartRow(headers) == IF headers # <<>> THEN 2 ELSE 1

\* _add_data, the inner loop: the values of one row from column col_idx on
RECURSIVE AddRowFrom(_, _, _, _, _)
AddRowFrom(ws, row_idx, row_data, headers, col_idx) ==
    IF col_idx > Len(row_data)
    THEN ws
    ELSE LET cell == [Cell(ws, row_idx, col_idx) EXCEPT !.value = row_data[col_idx]]
             styled ==
                 IF /\ headers # <<>>
                    /\ col_idx <= Len(headers)
                    /\ Has(headers[col_idx], "data_style")
                 THEN apply_cell_style(cell, headers[col_idx].data_style)
                 ELSE cell
         IN  AddRowFrom(SetCell(ws, row_idx, col_idx, styled), row_idx, row_data,
                        headers, col_idx + 1)

\* _add_data, the outer loop: the rows from data[k] on
RECURSIVE AddDataFrom(_, _, _, _)
AddDataFrom(ws, data, headers, k) ==
    IF k > Len(data)
    THEN ws
    ELSE AddDataFrom(AddRowFrom(ws, StartRow(headers) + k - 1, data[k], headers, 1),
                     data, headers, k + 1)

\* _add_data
add_data(ws, data, headers) == AddDataFrom(ws, data, headers, 1)


\* openpyxl range_boundaries, for a range "A1:C3" of one-letter columns and
\* one-digit rows
ColumnIndex(letter) == CHOOSE column \in 1..26 : get_column_letter(column) = letter
RowNumber(digit) == CHOOSE n \in 0..9 : ToString(n) = digit
range_boundaries(cell_range) ==
    [min_col |-> ColumnIndex(SubSeq(cell_range, 1, 1)),
     min_row |-> RowNumber(SubSeq(cell_range, 2, 2)),
     max_col |-> ColumnIndex(SubSeq(cell_range, 4, 4)),
     max_row |-> RowNumber(SubSeq(cell_range, 5, 5))]

\* _apply_borders: ws[cell_range] gives every cell of the range, creating
\* the ones the worksheet does not hold
apply_borders(ws, border_config) ==
    IF Has(border_config, "range")
    THEN LET b == range_boundaries(border_config.range)
             side == Get(border_config, "style", "thin")
             box == {<<r, c>> : r \in b.min_row..b.max_row, c \in b.min_col..b.max_col}
         IN  [ws EXCEPT !.cells =
                 [p \in Positions(ws) \cup box |->
                     IF p \in box
                     THEN [Cell(ws, p[1], p[2]) EXCEPT
                              !.border = [left |-> side, right |-> side,
                                          top |-> side, bottom |-> side]]
                     ELSE ws.cells[p]]]
    ELSE ws

\* Odd rows coloured with the first colour
AlternatingColorOddFirst(row_idx, color1, color2) ==
    IF row_idx % 2 = 1 THEN color1 ELSE color2

\* _apply_alternating_rows, line 241
AlternatingColor(row_idx, color1, color2) ==
    IF row_idx % 2 = 0 THEN color1 ELSE color2

\* _apply_alternating_rows: ws.cell(row, column) creates the cells of the
\* band that the worksheet does not hold
apply_alternating_rows(ws, config) ==
    LET start_row == Get(config, "start_row", 2)
        end_row == Get(config, "end_row", max_row(ws))
        color1 == Get(config, "color1", "FFFFFF")
        color2 == Get(config, "color2", "F2F2F2")
        band == {<<r, c>> : r \in start_row..end_row, c \in 1..max_column(ws)}
    IN  [ws EXCEPT !.cells =
            [p \in Positions(ws) \cup band |->
                IF p \in band
                THEN [Cell(ws, p[1], p[2]) EXCEPT
                         !.fill = SolidFill(AlternatingColor(p[1], color1, color2))]
                ELSE ws.cells[p]]]

\* _apply_formatting, lines 168-170
apply_freeze_panes(ws, formatting) ==
    [ws EXCEPT !.freeze_panes = formatting.freeze_panes]


\* A chart class chosen for every type, the unknown ones drawn as bars
ChartClassDefaultsToBar(chart_type) ==
    CASE chart_type = "line" -> "LineChart"
      [] chart_type = "pie" -> "PieChart"
      [] OTHER -> "BarChart"

\* _add_charts, lines 253-260: the chart class of a type, None for a type
\* the loop passes over
ChartClass(chart_type) ==
    CASE chart_type = "bar" -> "BarChart"
      [] chart_type = "line" -> "LineChart"
      [] chart_type = "pie" -> "PieChart"
      [] OTHER -> None

\* The text of a cell range "A1:C3"
IsCellRange(s) ==
    /\ Len(s) = 5
    /\ \E column \in 1..26 : get_column_letter(column) = SubSeq(s, 1, 1)
    /\ \E n \in 1..9 : ToString(n) = SubSeq(s, 2, 2)
    /\ SubSeq(s, 3, 3) = ":"
    /\ \E column \in 1..26 : get_column_letter(column) = SubSeq(s, 4, 4)
    /\ \E n \in 1..9 : ToString(n) = SubSeq(s, 5, 5)

\* openpyxl Reference(ws, range_string=...): the text must read
\* <sheet name>!<cell range>, else ValueError is raised
MsgReference == "Value must be of the form sheetname!A1:E4"
ReferenceRaises(range_string) ==
    ~ \E i \in 1..Len(range_string) :
          /\ SubSeq(range_string, i, i) = "!"
          /\ ~Contains(SubSeq(range_string, 1, i - 1), "!")
          /\ IsCellRange(SubSeq(range_string, i + 1, Len(range_string)))

\* _add_charts, lines 277-279: a range without sheet name gets the title of
\* the worksheet
QualifiedRange(ws, data_range) ==
    IF ~Contains(data_range, "!") THEN ws.title \o "!" \o data_range ELSE data_range

\* _add_charts, line 283
ChartWarning(data_range, e) ==
    "Warning: Could not add chart data range '" \o data_range \o "': " \o e

\* _add_charts, one pass of the loop body.  acc holds the worksheet and the
\* lines printed so far
AddChart(acc, chart_config) ==
    LET chart_type == Get(chart_config, "type", "bar")
        class == ChartClass(chart_type)
        axis(key) ==
            IF chart_type # "pie" /\ Get(chart_config, key, None) \notin {None, ""}
            THEN chart_config[key] ELSE None
        data_range == Get(chart_config, "data_range", None)
        given == data_range \notin {None, ""}
        qualified == QualifiedRange(acc.ws, data_range)
        raises == given /\ ReferenceRaises(qualified)
        chart == [class    |-> class,
                  title    |-> Get(chart_config, "title", "Chart"),
                  x_axis   |-> axis("x_axis_title"),
                  y_axis   |-> axis("y_axis_title"),
                  data     |-> IF given /\ ~raises THEN qualified ELSE None,
                  anchor   |-> Get(chart_config, "position", "E2")]
    IN  IF class = None
        THEN acc
        ELSE [ws |-> [acc.ws EXCEPT !.charts = Append(@, chart)],
              printed |-> IF raises
                          THEN Append(acc.printed, ChartWarning(qualified, MsgReference))
                          ELSE acc.printed]

\* _add_charts, the loop from charts_config[k] on
RECURSIVE AddChartsFrom(_, _, _)
AddChartsFrom(acc, charts_config, k) ==
    IF k > Len(charts_config)
    THEN acc
    ELSE AddChartsFrom(AddChart(acc, charts_config[k]), charts_config, k + 1)

\* _add_charts
add_charts(ws, printed, charts_config) ==
    AddChartsFrom([ws |-> ws, printed |-> printed], charts_config, 1)

\* _auto_adjust_columns, lines 298-300: what a cell adds to the length
CellLength(cell) == Len(str(cell.value))

\* _auto_adjust_columns, line 304
AdjustedWidth(max_length) == Min(max_length + 2, 50)

\* _auto_adjust_columns: ws.columns gives nothing for a worksheet without
\* cells, else every column 1..max_column with its cells of the rows
\* 1..max_row, creating the ones the worksheet does not hold
auto_adjust_columns(ws) ==
    IF Positions(ws) = {}
    THEN ws
    ELSE LET rows == 1..max_row(ws)
             columns == 1..max_column(ws)
             max_length(c) == Max({0} \cup {CellLength(Cell(ws, r, c)) : r \in rows})
         IN  [ws EXCEPT
                 !.cells = [p \in rows \X columns |-> Cell(ws, p[1], p[2])],
                 !.widths = [l \in {get_column_letter(c) : c \in columns} |->
                                AdjustedWidth(max_length(ColumnIndex(l)))]]


-----------------------------------------------------------------------------
(* ExcelReportGenerator.create_report, statement by statement *)

\* A sheet whose rows are coloured before its data is written
PhaseOrderFillBeforeData ==
    <<"create", "properties", "headers", "borders", "alternating_rows", "data",
      "freeze_panes", "charts", "auto_adjust_columns">>

\* The statements of _create_sheet, with those of _apply_formatting in the
\* place of its call, in the order of the code
PhaseOrder ==
    <<"create", "properties", "headers", "data", "borders", "alternating_rows",
      "freeze_panes", "charts", "auto_adjust_columns">>

\* The place of a statement in _create_sheet
PhaseIndex(phase) == CHOOSE k \in 1..Len(PhaseOrder) : PhaseOrder[k] = phase

\* A generator on which create_report(config, output_path) was called.
\* given keeps the configuration as the caller wrote it; config is the dict
\* create_report stores the default sheet list into.
GenCall(config, output_path) ==
    [pcg         |-> "begin",
     given       |-> config,
     config      |-> config,
     output_path |-> output_path,
     i           |-> 0,
     cur         |-> 0,
     worksheets  |-> {},
     wb          |-> [sheets |-> <<>>, properties |-> EmptyDict],
     printed     |-> <<>>,
     trace       |-> <<>>,
     raised      |-> None]

\* The sheet configuration the loop of create_report is at
SheetConfig(g) == g.config.sheets[g.i]

\* The worksheet _create_sheet works on
Ws(g) == g.wb.sheets[g.cur]

\* The generator after the statement `phase` of _create_sheet: ran tells
\* whether its condition held, ws is the worksheet it leaves
AfterPhase(g, phase, ran, ws) ==
    LET k == PhaseIndex(phase)
        h == [g EXCEPT !.wb.sheets[g.cur] = ws,
                       !.trace = IF ran THEN Append(@, <<g.i, phase>>) ELSE @]
    IN  IF k < Len(PhaseOrder)
        THEN [h EXCEPT !.pcg = PhaseOrder[k + 1]]
        ELSE IF g.i < Len(g.config.sheets)
        THEN [h EXCEPT !.pcg = PhaseOrder[1], !.i = g.i + 1]
        ELSE [h EXCEPT !.pcg = "workbook_properties"]

\* create_report, lines 32-42: a new workbook; the default sheet list, or
\* the removal of the workbook's first sheet
GenBegin ==
    /\ gen.pcg = "begin"
    /\ LET cfg == DefaultSheets(gen.config)
           wb == IF cfg # gen.config
                 THEN NewWorkbook
                 ELSE [NewWorkbook EXCEPT !.sheets = <<>>]
       IN  gen' = [gen EXCEPT !.config = cfg, !.wb = wb, !.i = 1,
                              !.pcg = PhaseOrder[1]]
    /\ UNCHANGED <<jobs, obj, pc, running, exc, result_path, files, now, polled>>

\* create_report, line 60: an exception of any statement is raised again
\* with a prefix
GenRaise(g, e) ==
    [g EXCEPT !.pcg = "raised", !.raised = "Error creating Excel report: " \o e]

\* _create_sheet, lines 67-76: the worksheet of the sheet
GenCreateSheet ==
    /\ gen.pcg = "create"
    /\ LET sheet_config == SheetConfig(gen)
       IN  IF SheetRaises(sheet_config)
           THEN gen' = GenRaise(gen, MsgSheetNotDict)
           ELSE LET sheet_name ==
                        Get(sheet_config, "name",
                            "Sheet" \o ToString(Cardinality(gen.worksheets) + 1))
                    reuse == gen.worksheets = {} /\ HasActive(gen.wb)
                    wb == IF reuse
                          THEN [gen.wb EXCEPT !.sheets[1].title = sheet_name]
                          ELSE [gen.wb EXCEPT !.sheets =
                                   Append(@, NewWorksheet(UniqueTitle(gen.wb, sheet_name, 0)))]
                    g == [gen EXCEPT !.wb = wb,
                                     !.cur = IF reuse THEN 1 ELSE Len(wb.sheets),
                                     !.worksheets = @ \cup {sheet_name}]
                IN  gen' = AfterPhase(g, "create", TRUE, g.wb.sheets[g.cur])
    /\ UNCHANGED <<jobs, obj, pc, running, exc, result_path, files, now, polled>>

\* _create_sheet, lines 78-80
GenSheetProperties ==
    /\ gen.pcg = "properties"
    /\ LET ran == Has(SheetConfig(gen), "properties")
       IN  gen' = AfterPhase(gen, "properties", ran,
                       IF ran THEN apply_sheet_properties(Ws(gen), SheetConfig(gen).properties)
                              ELSE Ws(gen))
    /\ UNCHANGED <<jobs, obj, pc, running, exc, result_path, files, now, polled>>

\* openpyxl Color(rgb): the text must be 6 or 8 hexadecimal digits, else
\* ValueError is raised
MsgColor == "Colors must be aRGB hex values"
ColorRaises(color) ==
    ~ /\ Len(color) \in {6, 8}
      /\ \A i \in 1..Len(color) :
            SubSeq(color, i, i) \in
                {"0", "1", "2", "3", "4", "5", "6", "7", "8", "9", "A", "B", "C",
                 "D", "E", "F", "a", "b", "c", "d", "e", "f"}

\* The colours _apply_cell_style hands to Font and PatternFill
StyleColors(style) ==
    (IF Has(style, "font") THEN {Get(style.font, "color", "000000")} ELSE {})
    \cup (IF Has(style, "fill") THEN {Get(style.fill, "color", "FFFFFF")} ELSE {})

\* The colours _add_headers hands to the library
HeaderColors(headers) ==
    UNION {IF Has(headers[i], "style") THEN StyleColors(headers[i].style)
           ELSE {"FFFFFF", "366092"} : i \in 1..Len(headers)}

\* The colours _add_data hands to the library: those of the data_style of
\* every header that has a value below it
DataColors(data, headers) ==
    UNION {StyleColors(headers[i].data_style) :
             i \in {c \in 1..Len(headers) :
                      /\ Has(headers[c], "data_style")
                      /\ \E r \in 1..Len(data) : Len(data[r]) >= c}}

\* The colours _apply_alternating_rows hands to the library: one per row
AlternatingColors(ws, config) ==
    {AlternatingColor(r, Get(config, "color1", "FFFFFF"), Get(config, "color2", "F2F2F2")) :
        r \in Get(config, "start_row", 2)..Get(config, "end_row", max_row(ws))}

\* The generator after a phase that handed the colours to the library and,
\* when the library took them all, left the worksheet ws
AfterColoredPhase(g, phase, ran, colors, ws) ==
    IF ran /\ \E color \in colors : ColorRaises(color)
    THEN [g EXCEPT !.pcg = "raised",
                   !.raised = "Error creating Excel report: " \o MsgColor]
    ELSE AfterPhase(g, phase, ran, ws)

\* _create_sheet, lines 82-84
GenHeaders ==
    /\ gen.pcg = "headers"
    /\ LET ran == Has(SheetConfig(gen), "headers")
       IN  gen' = AfterColoredPhase(gen, "headers", ran,
                       IF ran THEN HeaderColors(SheetConfig(gen).headers) ELSE {},
                       IF ran THEN add_headers(Ws(gen), SheetConfig(gen).headers)
                              ELSE Ws(gen))
    /\ UNCHANGED <<jobs, obj, pc, running, exc, result_path, files, now, polled>>

\* _create_sheet, lines 86-88
GenData ==
    /\ gen.pcg = "data"
    /\ LET ran == Has(SheetConfig(gen), "data")
       IN  gen' = AfterColoredPhase(gen, "data", ran,
                       IF ran THEN DataColors(SheetConfig(gen).data,
                                              Get(SheetConfig(gen), "headers", <<>>))
                              ELSE {},
                       IF ran THEN add_data(Ws(gen), SheetConfig(gen).data,
                                            Get(SheetConfig(gen), "headers", <<>>))
                              ELSE Ws(gen))
    /\ UNCHANGED <<jobs, obj, pc, running, exc, result_path, files, now, polled>>

\* The formatting of the sheet holds the key
Formats(g, key) ==
    /\ Has(SheetConfig(g), "formatting")
    /\ Has(SheetConfig(g).formatting, key)

\* _create_sheet, lines 90-92, and _apply_formatting, lines 160-162
GenBorders ==
    /\ gen.pcg = "borders"
    /\ LET ran == Formats(gen, "borders")
       IN  gen' = AfterPhase(gen, "borders", ran,
                       IF ran THEN apply_borders(Ws(gen), SheetConfig(gen).formatting.borders)
                              ELSE Ws(gen))
    /\ UNCHANGED <<jobs, obj, pc, running, exc, result_path, files, now, polled>>

\* _apply_formatting, lines 164-166
GenAlternatingRows ==
    /\ gen.pcg = "alternating_rows"
    /\ LET ran == Formats(gen, "alternating_rows")
       IN  gen' = AfterColoredPhase(gen, "alternating_rows", ran,
                       IF ran THEN AlternatingColors(Ws(gen),
                                       SheetConfig(gen).formatting.alternating_rows)
                              ELSE {},
                       IF ran THEN apply_alternating_rows(Ws(gen),
                                       SheetConfig(gen).formatting.alternating_rows)
                              ELSE Ws(gen))
    /\ UNCHANGED <<jobs, obj, pc, running, exc, result_path, files, now, polled>>

\* _apply_formatting, lines 168-170
GenFreezePanes ==
    /\ gen.pcg = "freeze_panes"
    /\ LET ran == Formats(gen, "freeze_panes")
       IN  gen' = AfterPhase(gen, "freeze_panes", ran,
                       IF ran THEN apply_freeze_panes(Ws(gen), SheetConfig(gen).formatting)
                              ELSE Ws(gen))
    /\ UNCHANGED <<jobs, obj, pc, running, exc, result_path, files, now, polled>>

\* _create_sheet, lines 94-96
GenCharts ==
    /\ gen.pcg = "charts"
    /\ LET ran == Has(SheetConfig(gen), "charts")
           r == IF ran THEN add_charts(Ws(gen), gen.printed, SheetConfig(gen).charts)
                       ELSE [ws |-> Ws(gen), printed |-> gen.printed]
       IN  gen' = AfterPhase([gen EXCEPT !.printed = r.printed], "charts", ran, r.ws)
    /\ UNCHANGED <<jobs, obj, pc, running, exc, result_path, files, now, polled>>

\* _create_sheet, lines 98-100
GenAutoAdjust ==
    /\ gen.pcg = "auto_adjust_columns"
    /\ LET ran == Get(SheetConfig(gen), "auto_adjust_columns", TRUE)
       IN  gen' = AfterPhase(gen, "auto_adjust_columns", ran,
                       IF ran THEN auto_adjust_columns(Ws(gen)) ELSE Ws(gen))
    /\ UNCHANGED <<jobs, obj, pc, running, exc, result_path, files, now, polled>>

\* _apply_workbook_properties
apply_workbook_properties(wb, properties) ==
    [wb EXCEPT !.properties =
        [key \in {"title", "creator", "description"} |->
            Get(properties, key, wb.properties[key])]]

\* create_report, lines 48-50
GenWorkbookProperties ==
    /\ gen.pcg = "workbook_properties"
    /\ gen' = [gen EXCEPT
                  !.pcg = "save",
                  !.wb = IF Has(gen.config, "properties")
                         THEN apply_workbook_properties(@, gen.config.properties)
                         ELSE @]
    /\ UNCHANGED <<jobs, obj, pc, running, exc, result_path, files, now, polled>>

\* create_report, lines 52-58: the workbook is written to output_path, or
\* the file system refuses
GenSave ==
    /\ gen.pcg = "save"
    /\ \E saveOk \in BOOLEAN :
          IF saveOk
          THEN /\ files' = WriteFile(files, gen.output_path, NoJob)
               /\ gen' = [gen EXCEPT !.pcg = "done"]
          ELSE /\ files' = files
               /\ gen' = GenRaise(gen, MsgSave)
    /\ UNCHANGED <<jobs, obj, pc, running, exc, result_path, now, polled>>


-----------------------------------------------------------------------------
(* Configurations rendered by a direct call of create_report *)

\* A text of 80 characters
Text80 == "0123456789012345678901234567890123456789012345678901234567890123456789012345678X"

\* The values of a 'headers' key: an empty list, one header, and two
\* headers of which the first styles its data and the second has no title
HeaderLists ==
    {<<>>,
     <<[title |-> "Id"]>>,
     <<[title |-> "Name", data_style |-> [fill |-> [color |-> "FFFF00"]]],
       [style |-> [font |-> [bold |-> TRUE, color |-> "FF0000"]]]>>}

\* Data rows of 0 to 3 values: shorter and longer than the header lists
DataRows ==
    {<<>>,
     <<StrValue("ab")>>,
     <<IntValue(12345), StrValue("b")>>,
     <<StrValue(Text80), NoneValue, StrValue("xyz")>>}

\* The lists of up to n data rows
RECURSIVE DataLists(_)
DataLists(n) ==
    IF n = 0
    THEN {<<>>}
    ELSE DataLists(n - 1) \cup
         {Append(data, row) : data \in {d \in DataLists(n - 1) : Len(d) = n - 1},
                              row \in DataRows}

\* The values of a 'formatting' key
Formattings ==
    {[alternating_rows |-> [color1 |-> "FFFFFF"]],
     [alternating_rows |-> [start_row |-> 2, end_row |-> 5,
                            color1 |-> "FFFFFF", color2 |-> "F2F2F2"]],
     [borders |-> [range |-> "A1:B2", style |-> "thin"],
      alternating_rows |-> [start_row |-> 1, end_row |-> 2,
                            color1 |-> "DDDDDD", color2 |-> "EEEEEE"],
      freeze_panes |-> "A2"]}

\* The values of a 'charts' key
ChartLists ==
    {<<ChartBadRange, ChartValid>>,
     <<ChartUnknownType, ChartValid, ChartNoRange>>,
     <<ChartOtherSheet, ChartUnknownType, ChartBadRange>>}

\* A sheet configuration named Data with the optional keys given
SheetOf(headers, data, formatting, charts, auto) ==
    LET base == [isDict |-> TRUE, name |-> "Data"]
        add(d, key, v) == IF v = <<>> THEN d
                          ELSE [k \in DOMAIN d \cup {key} |-> IF k = key THEN v[1] ELSE d[k]]
    IN  add(add(add(add(add(base, "headers", headers), "data", data),
                    "formatting", formatting), "charts", charts),
            "auto_adjust_columns", auto)

\* An optional key: absent (the empty tuple), or holding one of the values
Optional(values) == {<<>>} \cup {<<v>> : v \in values}

\* The sheet configurations rendered alone
SheetConfigs ==
    {SheetOf(h, d, f, c, a) :
        h \in Optional(HeaderLists), d \in Optional(DataLists(MaxRows)),
        f \in Optional(Formattings), c \in Optional(ChartLists),
        a \in Optional({FALSE})}

\* The sheet configurations rendered in lists of several sheets: two sheets
\* of the same name, a sheet without name, and an entry that is no mapping
ListedSheets ==
    {[isDict |-> TRUE, name |-> "Data"],
     [isDict |-> TRUE, name |-> "Data", properties |-> [tab_color |-> "FF0000", zoom |-> 80],
      headers |-> <<[title |-> "Id"]>>, data |-> <<<<IntValue(1)>>, <<IntValue(2)>>>>,
      formatting |-> [alternating_rows |-> [color1 |-> "FFFFFF"]]],
     [isDict |-> TRUE, auto_adjust_columns |-> FALSE],
     [isDict |-> FALSE, name |-> "oops"]}

\* The lists of up to n listed sheets
RECURSIVE SheetLists(_)
SheetLists(n) ==
    IF n = 0
    THEN {<<>>}
    ELSE SheetLists(n - 1) \cup
         {Append(l, sheet) : l \in {x \in SheetLists(n - 1) : Len(x) = n - 1},
                             sheet \in ListedSheets}

\* Sheets whose colours are written with '#', as a name, or in lower case
ColoredSheets ==
    {[isDict |-> TRUE, name |-> "Data",
      headers |-> <<[title |-> "Id", style |-> [font |-> [color |-> "#FF0000"]]]>>],
     [isDict |-> TRUE, name |-> "Data",
      headers |-> <<[title |-> "Id", data_style |-> [fill |-> [color |-> "red"]]]>>,
      data |-> <<<<IntValue(1)>>>>],
     [isDict |-> TRUE, name |-> "Data",
      headers |-> <<[title |-> "Id", data_style |-> [fill |-> [color |-> "red"]]]>>],
     [isDict |-> TRUE, name |-> "Data", data |-> <<<<IntValue(1)>>, <<IntValue(2)>>>>,
      formatting |-> [alternating_rows |-> [color1 |-> "#FFFFFF", color2 |-> "f2f2f2"]]],
     [isDict |-> TRUE, name |-> "Data", data |-> <<<<IntValue(1)>>>>,
      formatting |-> [alternating_rows |-> [start_row |-> 1, end_row |-> 1,
                                            color1 |-> "#FFFFFF", color2 |-> "f2f2f2"]]]}

\* The configurations handed to create_report
RenderConfigs ==
    {CfgNoSheets, CfgEmptySheets, CfgOneSheet, CfgBadSheet,
     [hasSheets |-> FALSE, sheets |-> <<>>, properties |-> [title |-> "Report"]]}
    \cup {[hasSheets |-> TRUE, sheets |-> <<sheet>>] :
             sheet \in SheetConfigs \cup ColoredSheets}
    \cup {[hasSheets |-> TRUE, sheets |-> l,
           properties |-> [title |-> "Report", creator |-> "me"]] :
             l \in SheetLists(MaxSheets) \ {<<>>}}

InitRender ==
    /\ jobs = {}
    /\ obj = <<>>
    /\ pc = [id \in JobIds |-> "none"]
    /\ running = NoJob
    /\ exc = [id \in JobIds |-> None]
    /\ result_path = [id \in JobIds |-> None]
    /\ files = {}
    /\ now = 0
    /\ polled = Unpolled
    /\ gen \in {GenCall(config, "out.xlsx") : config \in RenderConfigs}

NextRender ==
    \/ GenBegin
    \/ GenCreateSheet
    \/ GenSheetProperties
    \/ GenHeaders
    \/ GenData
    \/ GenBorders
    \/ GenAlternatingRows
    \/ GenFreezePanes
    \/ GenCharts
    \/ GenAutoAdjust
    \/ GenWorkbookProperties
    \/ GenSave

SpecRender == InitRender /\ [][NextRender]_vars

\* create_report has returned
Rendered == gen.pcg = "done"


-----------------------------------------------------------------------------
(* Charts *)

\* The chart entry gets a chart class and names a data_range that
\* Reference cannot resolve on a worksheet of the title
Unresolvable(title, chart_config) ==
    /\ ChartClass(Get(chart_config, "type", "bar")) # None
    /\ Get(chart_config, "data_range", None) \notin {None, ""}
    /\ ReferenceRaises(QualifiedRange([title |-> title], chart_config.data_range))

\* The charts of a sheet configuration, none when it has no 'charts' key
ChartsOf(sheet_config) == Get(sheet_config, "charts", <<>>)

\* The number of charts with an unresolvable data_range in a configuration
\* whose sheets are all named
RECURSIVE BadCharts(_, _)
BadCharts(sheets, i) ==
    IF i > Len(sheets)
    THEN 0
    ELSE Len(SelectSeq(ChartsOf(sheets[i]),
                       LAMBDA c : Unresolvable(sheets[i].name, c)))
         + BadCharts(sheets, i + 1)

\* C12: a job whose sheets hold charts with an unresolvable data_range and
\* whose render returned ends completed, with exactly one entry in its
\* warnings per such chart.
C12_ChartWarningsRecorded ==
    \A id \in Created :
        (/\ Ended(id)
         /\ result_path[id] # None
         /\ BadCharts(obj[id].config.sheets, 1) > 0) =>
            /\ obj[id].status = COMPLETED
            /\ Len(obj[id].warnings) = BadCharts(obj[id].config.sheets, 1)


\* The chart entry names a data_range
NamesRange(chart_config) == Get(chart_config, "data_range", None) \notin {None, ""}

\* The chart entry gets a chart class and names a data_range that Reference
\* resolves on a worksheet of the title
Resolvable(title, chart_config) ==
    /\ ChartClass(Get(chart_config, "type", "bar")) # None
    /\ NamesRange(chart_config)
    /\ ~ReferenceRaises(QualifiedRange([title |-> title], chart_config.data_range))

\* C13: when create_report has returned, every worksheet whose configured
\* charts all name a data_range holds as many charts as its configuration
\* has charts of a supported type with a resolvable data_range: a chart
\* whose data_range cannot be resolved is not added.
C13_BadRangeChartSkipped ==
    Rendered =>
        \A k \in 1..Len(gen.wb.sheets) :
            LET charts_config == ChartsOf(gen.config.sheets[k])
                ws == gen.wb.sheets[k]
            IN  (\A n \in 1..Len(charts_config) : NamesRange(charts_config[n])) =>
                    Len(ws.charts) =
                        Len(SelectSeq(charts_config, LAMBDA c : Resolvable(ws.title, c)))


\* The titles of the charts a worksheet holds, in the order they were added
ChartTitles(ws) == [n \in 1..Len(ws.charts) |-> ws.charts[n].title]

\* The titles the configured charts of a supported type get, in the order of
\* the configuration
SupportedTitles(charts_config) ==
    LET supported ==
            SelectSeq(charts_config,
                      LAMBDA c : Get(c, "type", "bar") \in {"bar", "line", "pie"})
    IN  [n \in 1..Len(supported) |-> Get(supported[n], "title", "Chart")]

\* The lines _add_charts prints for a worksheet: one per chart of a
\* supported type whose data_range Reference refuses
ExpectedPrinted(ws, charts_config) ==
    LET bad == SelectSeq(charts_config, LAMBDA c : Unresolvable(ws.title, c))
    IN  [n \in 1..Len(bad) |->
            ChartWarning(QualifiedRange(ws, bad[n].data_range), MsgReference)]

\* The concatenation of a sequence of sequences
RECURSIVE Flatten(_)
Flatten(seqs) == IF seqs = <<>> THEN <<>> ELSE Head(seqs) \o Flatten(Tail(seqs))

\* C14: a chart whose type is none of bar, line, pie is passed over in
\* silence: when create_report has returned, each worksheet holds exactly the
\* charts of a supported type, in configuration order (none for the other
\* types, and the charts that follow one are still added), the lines printed
\* are those of the supported charts with a bad data_range only, and
\* create_report on a configuration with such a chart raises for no reason
\* but a sheet entry that is no mapping or a failed save.
C14_UnknownTypeSkipped ==
    /\ Rendered =>
          /\ \A k \in 1..Len(gen.wb.sheets) :
                ChartTitles(gen.wb.sheets[k]) =
                    SupportedTitles(ChartsOf(gen.config.sheets[k]))
          /\ gen.printed =
                Flatten([k \in 1..Len(gen.wb.sheets) |->
                            ExpectedPrinted(gen.wb.sheets[k],
                                            ChartsOf(gen.config.sheets[k]))])
    /\ (/\ gen.pcg = "raised"
        /\ \E k \in 1..Len(gen.config.sheets) :
              \E n \in 1..Len(ChartsOf(gen.config.sheets[k])) :
                  Get(ChartsOf(gen.config.sheets[k])[n], "type", "bar")
                      \notin {"bar", "line", "pie"}) =>
          gen.raised \in {"Error creating Excel report: " \o MsgSheetNotDict,
                          "Error creating Excel report: " \o MsgSave}

\* A sheet whose first chart has the type scatter was rendered: the sheet
\* holds the bar chart that follows it and the chart without data_range
C14_Witness ==
    /\ Rendered
    /\ ChartsOf(gen.config.sheets[1]) = <<ChartUnknownType, ChartValid, ChartNoRange>>
    /\ ChartTitles(gen.wb.sheets[1]) = <<"valid", "empty">>
    /\ gen.printed = <<>>


-----------------------------------------------------------------------------
(* Order of the phases *)

\* The order in which the phases of a sheet are to run, the creation of the
\* worksheet first
ClaimedOrder ==
    <<"create", "properties", "headers", "data", "borders", "alternating_rows",
      "freeze_panes", "charts", "auto_adjust_columns">>

\* The configuration of a sheet asks for the phase
Configured(sheet_config, phase) ==
    CASE phase = "create" -> TRUE
      [] phase \in {"properties", "headers", "data", "charts"} ->
            Has(sheet_config, phase)
      [] phase \in {"borders", "alternating_rows", "freeze_panes"} ->
            Has(sheet_config, "formatting") /\ Has(sheet_config.formatting, phase)
      [] phase = "auto_adjust_columns" ->
            Get(sheet_config, "auto_adjust_columns", TRUE)

\* The phases to run for the sheets from sheet i on: for each sheet in turn,
\* the phases it configures, in the claimed order
RECURSIVE ExpectedTrace(_, _)
ExpectedTrace(sheets, i) ==
    IF i > Len(sheets)
    THEN <<>>
    ELSE LET phases == SelectSeq(ClaimedOrder, LAMBDA ph : Configured(sheets[i], ph))
         IN  [n \in 1..Len(phases) |-> <<i, phases[n]>>] \o ExpectedTrace(sheets, i + 1)

\* s is an initial part of t
IsPrefix(s, t) == Len(s) <= Len(t) /\ s = SubSeq(t, 1, Len(s))

\* C15: the phases run one at a time, sheet after sheet, and for each sheet in
\* the order properties, headers, data, borders, alternating rows, freeze
\* panes, charts, column widths, a phase the sheet does not configure left
\* out: at every point the phases run so far are an initial part of that
\* sequence, each step runs at most one phase, and when create_report returns
\* all of them have run.
C15_PhaseOrder ==
    /\ [](gen.pcg \notin {"idle", "begin"} =>
            /\ IsPrefix(gen.trace, ExpectedTrace(gen.config.sheets, 1))
            /\ Rendered => gen.trace = ExpectedTrace(gen.config.sheets, 1))
    /\ [][gen.pcg # "begin" => Len(gen'.trace) <= Len(gen.trace) + 1]_vars

\* Two sheets were rendered: the first configures nothing, the second was
\* given properties, headers, data and alternating rows, which ran in this
\* order after the first sheet was finished
C15_Witness ==
    /\ Rendered
    /\ gen.trace = <<<<1, "create">>, <<1, "auto_adjust_columns">>,
                     <<2, "create">>, <<2, "properties">>, <<2, "headers">>,
                     <<2, "data">>, <<2, "alternating_rows">>,
                     <<2, "auto_adjust_columns">>>>


-----------------------------------------------------------------------------
(* Sheets of the workbook *)

\* The configuration has no 'sheets' key, or an empty list under it
NoSheets(config) == ~config.hasSheets \/ config.sheets = <<>>

\* C16: create_report on a configuration without sheets raises only when the
\* file cannot be written, and returns with a workbook of exactly one
\* worksheet, titled "Sheet1", without cells, charts or column widths; on a
\* configuration of n >= 1 sheets it returns with exactly n worksheets, the
\* k-th made from the k-th entry: it carries the entry's name (with a number
\* appended when the name is taken) and the entry's first header.
C16_SheetsOfWorkbook ==
    /\ (NoSheets(gen.given) /\ gen.pcg = "raised") =>
          gen.raised = "Error creating Excel report: " \o MsgSave
    /\ (NoSheets(gen.given) /\ Rendered) =>
          /\ Len(gen.wb.sheets) = 1
          /\ gen.wb.sheets[1].title = "Sheet1"
          /\ Positions(gen.wb.sheets[1]) = {}
          /\ gen.wb.sheets[1].charts = <<>>
          /\ DOMAIN gen.wb.sheets[1].widths = {}
    /\ (~NoSheets(gen.given) /\ Rendered) =>
          /\ Len(gen.wb.sheets) = Len(gen.given.sheets)
          /\ \A k \in 1..Len(gen.given.sheets) :
                LET sheet_config == gen.given.sheets[k]
                    ws == gen.wb.sheets[k]
                IN  /\ Has(sheet_config, "name") =>
                          IsPrefix(sheet_config.name, ws.title)
                    /\ Get(sheet_config, "headers", <<>>) # <<>> =>
                          /\ <<1, 1>> \in Positions(ws)
                          /\ ws.cells[<<1, 1>>].value =
                                StrValue(Get(sheet_config.headers[1], "title", "Column 1"))
                    /\ (~Has(sheet_config, "headers") /\ ~Has(sheet_config, "data")
                        /\ ~Has(sheet_config, "formatting")) =>
                          Positions(ws) = {}

\* create_report was called with {"sheets": []} and has returned with the
\* one worksheet "Sheet1"
C16_Witness ==
    /\ Rendered
    /\ gen.given = CfgEmptySheets
    /\ Len(gen.wb.sheets) = 1
    /\ gen.wb.sheets[1].title = "Sheet1"


-----------------------------------------------------------------------------
(* Placement of headers and data *)

\* The worksheet holds a cell of the value at the position
Written(ws, row, column, value) ==
    /\ <<row, column>> \in Positions(ws)
    /\ ws.cells[<<row, column>>].value = value

\* Header i of the sheet is in row 1, column i, and the data value of row r,
\* column c (both counted from 0) is in row first_row + r, column c + 1
PlacedFrom(sheet_config, ws, first_row) ==
    LET headers == Get(sheet_config, "headers", <<>>)
        data == Get(sheet_config, "data", <<>>)
    IN  /\ \A i \in 1..Len(headers) :
              Written(ws, 1, i,
                      StrValue(Get(headers[i], "title", "Column " \o ToString(i))))
        /\ \A r \in 0..(Len(data) - 1) :
              \A c \in 0..(Len(data[r + 1]) - 1) :
                  Written(ws, first_row + r, c + 1, data[r + 1][c + 1])

\* C17 as stated: in every rendered sheet the headers are in row 1 and the
\* data starts in row 2 when the sheet has a 'headers' key, and in row 1
\* when it has none, whatever the lengths of the rows.
C17_DataBelowHeadersKey ==
    Rendered =>
        \A k \in 1..Len(gen.wb.sheets) :
            PlacedFrom(gen.config.sheets[k], gen.wb.sheets[k],
                       IF Has(gen.config.sheets[k], "headers") THEN 2 ELSE 1)

\* C17, amended: in every rendered sheet the headers are in row 1 and the
\* data starts in row 2 when the sheet has a non-empty list of headers, and
\* in row 1 when 'headers' is absent or an empty list, whatever the lengths
\* of the rows.
C17_DataBelowHeaderRow ==
    Rendered =>
        \A k \in 1..Len(gen.wb.sheets) :
            PlacedFrom(gen.config.sheets[k], gen.wb.sheets[k],
                       IF Get(gen.config.sheets[k], "headers", <<>>) # <<>> THEN 2 ELSE 1)

\* A sheet of two headers was rendered whose first data row has three values
\* and whose second has one: the third value of the first row is in row 2,
\* column 3, the value of the second in row 3, column 1
C17_Witness ==
    /\ Rendered
    /\ Len(Get(gen.config.sheets[1], "headers", <<>>)) = 2
    /\ Get(gen.config.sheets[1], "data", <<>>) =
          <<<<StrValue(Text80), NoneValue, StrValue("xyz")>>, <<StrValue("ab")>>>>
    /\ Written(gen.wb.sheets[1], 2, 3, StrValue("xyz"))
    /\ Written(gen.wb.sheets[1], 3, 1, StrValue("ab"))
    /\ Written(gen.wb.sheets[1], 1, 2, StrValue("Column 2"))


-----------------------------------------------------------------------------
(* Alternating rows *)

\* C18: the step that runs _apply_alternating_rows to its end leaves every cell of the
\* rows start_row..end_row, in each of the columns 1..max_column, with the
\* solid fill color1 when the row is even and color2 when it is odd,
\* whatever fill the cell had; every cell outside these rows is as before.
C18_AlternatingRows ==
    [][(/\ gen.pcg = "alternating_rows"
        /\ Formats(gen, "alternating_rows")
        /\ gen'.pcg # "raised") =>
          LET config == SheetConfig(gen).formatting.alternating_rows
              start_row == Get(config, "start_row", 2)
              end_row == Get(config, "end_row", max_row(Ws(gen)))
              color1 == Get(config, "color1", "FFFFFF")
              color2 == Get(config, "color2", "F2F2F2")
              before == Ws(gen)
              after == gen'.wb.sheets[gen.cur]
          IN  /\ \A r \in start_row..end_row, c \in 1..max_column(before) :
                    /\ <<r, c>> \in Positions(after)
                    /\ after.cells[<<r, c>>].fill =
                          [color |-> IF r % 2 = 0 THEN color1 ELSE color2,
                           fill_type |-> "solid"]
                    /\ after.cells[<<r, c>>].value = Cell(before, r, c).value
              /\ \A p \in Positions(after) :
                    p[1] \notin start_row..end_row =>
                        /\ p \in Positions(before)
                        /\ after.cells[p] = before.cells[p]]_vars

\* Rows 2 to 5 of a sheet were just coloured: the first data cell, which the
\* data_style of its header had filled yellow, is white, the cell below it
\* grey, and the header above keeps its fill
C18_Witness ==
    /\ gen.pcg = "freeze_panes"
    /\ Formats(gen, "alternating_rows")
    /\ Get(SheetConfig(gen).formatting.alternating_rows, "end_row", 0) = 5
    /\ Len(Get(SheetConfig(gen), "headers", <<>>)) = 2
    /\ Len(Get(SheetConfig(gen), "data", <<>>)) = 2
    /\ Len(SheetConfig(gen).data[1]) > 0
    /\ Cell(Ws(gen), 1, 1).fill = SolidFill("366092")
    /\ Cell(Ws(gen), 2, 1).fill = SolidFill("FFFFFF")
    /\ Cell(Ws(gen), 3, 1).fill = SolidFill("F2F2F2")
    /\ <<5, 2>> \in Positions(Ws(gen))


-----------------------------------------------------------------------------
(* Column widths *)

\* The cells of a column that hold a value
Populated(ws, column) ==
    {p \in Positions(ws) : p[2] = column /\ ws.cells[p].value # NoneValue}

\* The greatest length of the string form of a populated cell of the column
LongestPopulated(ws, column) ==
    Max({Len(ws.cells[p].value.text) : p \in Populated(ws, column)})

\* C19: in a rendered sheet whose auto_adjust_columns is true or left out,
\* every column that holds a populated cell has the width min(L + 2, 50),
\* with L the greatest length of the string form of its populated cells,
\* header included (cells without value do not count); in a sheet whose
\* auto_adjust_columns is false no column has a width.
C19_WidthFromPopulatedCells ==
    Rendered =>
        \A k \in 1..Len(gen.wb.sheets) :
            LET ws == gen.wb.sheets[k]
            IN  IF Get(gen.config.sheets[k], "auto_adjust_columns", TRUE)
                THEN \A column \in 1..max_column(ws) :
                        Populated(ws, column) # {} =>
                            /\ get_column_letter(column) \in DOMAIN ws.widths
                            /\ ws.widths[get_column_letter(column)] =
                                  IF LongestPopulated(ws, column) + 2 <= 50
                                  THEN LongestPopulated(ws, column) + 2
                                  ELSE 50
                ELSE DOMAIN ws.widths = {}


-----------------------------------------------------------------------------
(* structure_parser.normalize_color *)

\* The characters of the bodies of the colour strings tried: a lower case
\* hexadecimal letter, a digit, and a letter that is no hexadecimal digit
\* (capitals are met when a result is normalized again)
ColorChars == {"a", "0", "g"}

\* The strings of up to n colour characters
RECURSIVE ColorBodies(_)
ColorBodies(n) ==
    IF n = 0
    THEN {""}
    ELSE ColorBodies(n - 1) \cup
         {body \o ch : body \in {b \in ColorBodies(n - 1) : Len(b) = n - 1},
                       ch \in ColorChars}

\* The inputs of normalize_color: a body, after no, one or two '#', with or
\* without a blank before and after
ColorInputs ==
    {before \o hash \o body \o after :
        before \in {"", " "}, hash \in {"", "#", "##"},
        body \in ColorBodies(MaxColorLen), after \in {"", " "}}

\* The characters of '0123456789ABCDEFabcdef'
HexChars ==
    {"0", "1", "2", "3", "4", "5", "6", "7", "8", "9",
     "A", "B", "C", "D", "E", "F", "a", "b", "c", "d", "e", "f"}

\* str.strip(): the string without the blanks at its ends
RECURSIVE Strip(_)
Strip(s) ==
    IF s = "" THEN s
    ELSE IF SubSeq(s, 1, 1) = " " THEN Strip(SubSeq(s, 2, Len(s)))
    ELSE IF SubSeq(s, Len(s), Len(s)) = " " THEN Strip(SubSeq(s, 1, Len(s) - 1))
    ELSE s

\* An upper() that leaves every character as it is
UpperCharKeepsCase(ch) == ch

\* str.upper() on one character: the letters a-g of the inputs become A-G
UpperChar(ch) ==
    CASE ch = "a" -> "A" [] ch = "b" -> "B" [] ch = "c" -> "C" [] ch = "d" -> "D"
      [] ch = "e" -> "E" [] ch = "f" -> "F" [] ch = "g" -> "G" [] OTHER -> ch

\* str.upper()
RECURSIVE Upper(_)
Upper(s) ==
    IF s = "" THEN s ELSE UpperChar(SubSeq(s, 1, 1)) \o Upper(SubSeq(s, 2, Len(s)))

\* normalize_color
normalize_color(color_value) ==
    IF color_value = ""
    THEN "000000"
    ELSE LET stripped == Strip(color_value)
             color_str == IF Len(stripped) > 0 /\ SubSeq(stripped, 1, 1) = "#"
                          THEN SubSeq(stripped, 2, Len(stripped))
                          ELSE stripped
         IN  IF /\ Len(color_str) = 6
                /\ \A i \in 1..6 : SubSeq(color_str, i, i) \in HexChars
             THEN Upper(color_str)
             ELSE "000000"

\* A caller holds a colour string
ColorCall(x) == [pcg |-> "color", x |-> x]

\* y = normalize_color(x)
ColorNormalize ==
    /\ gen.pcg = "color"
    /\ gen' = [pcg |-> "normalized", x |-> gen.x, y |-> normalize_color(gen.x)]
    /\ UNCHANGED <<jobs, obj, pc, running, exc, result_path, files, now, polled>>

\* z = normalize_color(y)
ColorNormalizeAgain ==
    /\ gen.pcg = "normalized"
    /\ gen' = [pcg |-> "normalized_twice", x |-> gen.x, y |-> gen.y,
               z |-> normalize_color(gen.y)]
    /\ UNCHANGED <<jobs, obj, pc, running, exc, result_path, files, now, polled>>

InitColor ==
    /\ jobs = {}
    /\ obj = <<>>
    /\ pc = [id \in JobIds |-> "none"]
    /\ running = NoJob
    /\ exc = [id \in JobIds |-> None]
    /\ result_path = [id \in JobIds |-> None]
    /\ files = {}
    /\ now = 0
    /\ polled = Unpolled
    /\ gen \in {ColorCall(x) : x \in ColorInputs}

NextColor == ColorNormalize \/ ColorNormalizeAgain

SpecColor == InitColor /\ [][NextColor]_vars

\* The uppercase hexadecimal digits
UpperHex ==
    {"0", "1", "2", "3", "4", "5", "6", "7", "8", "9", "A", "B", "C", "D", "E", "F"}

\* A lower case hexadecimal letter and its capital
LowerUpper ==
    {<<"a", "A">>, <<"b", "B">>, <<"c", "C">>, <<"d", "D">>, <<"e", "E">>, <<"f", "F">>}

\* y is the string of 6 hexadecimal digits t in capitals
UpperFormOf(y, t) ==
    /\ Len(t) = 6
    /\ Len(y) = 6
    /\ \A i \in 1..6 :
          /\ SubSeq(y, i, i) \in UpperHex
          /\ \/ SubSeq(y, i, i) = SubSeq(t, i, i)
             \/ <<SubSeq(t, i, i), SubSeq(y, i, i)>> \in LowerUpper

\* s is a string of exactly 6 hexadecimal digits of any case
IsHex6(s) ==
    /\ Len(s) = 6
    /\ \A i \in 1..6 :
          \/ SubSeq(s, i, i) \in UpperHex
          \/ \E pair \in LowerUpper : pair[1] = SubSeq(s, i, i)

\* s without one leading '#'
WithoutHash(s) ==
    IF Len(s) > 0 /\ SubSeq(s, 1, 1) = "#" THEN SubSeq(s, 2, Len(s)) ELSE s

\* s is x without the blanks at its two ends
StrippedOf(s, x) ==
    \E i \in 1..(Len(x) + 1), j \in 0..Len(x) :
        /\ s = SubSeq(x, i, j)
        /\ \A k \in (1..(i - 1)) \cup ((j + 1)..Len(x)) : SubSeq(x, k, k) = " "
        /\ (i <= j) => (SubSeq(x, i, i) # " " /\ SubSeq(x, j, j) # " ")

\* normalize_color gives 6 uppercase hexadecimal digits and gives its own
\* result back unchanged
TotalIdempotent ==
    /\ gen.pcg \in {"normalized", "normalized_twice"} =>
          UpperFormOf(gen.y, gen.y)
    /\ gen.pcg = "normalized_twice" => gen.z = gen.y

\* C20 as stated: normalize_color gives 6 uppercase hexadecimal digits for
\* every string, gives its own result back unchanged, maps a string that is
\* 6 hexadecimal digits once one leading '#' is removed to these digits in
\* capitals, and every other string to "000000".
C20_NormalizeColorHashOnly ==
    /\ TotalIdempotent
    /\ gen.pcg = "normalized" =>
          IF IsHex6(WithoutHash(gen.x))
          THEN UpperFormOf(gen.y, WithoutHash(gen.x))
          ELSE gen.y = "000000"

\* C20, amended: normalize_color gives 6 uppercase hexadecimal digits for
\* every string, gives its own result back unchanged, maps a string that is
\* 6 hexadecimal digits once the blanks at its ends and then one leading '#'
\* are removed to these digits in capitals, and every other string to
\* "000000".
C20_NormalizeColor ==
    /\ TotalIdempotent
    /\ gen.pcg = "normalized" =>
          \E s \in {SubSeq(gen.x, i, j) : i \in 1..(Len(gen.x) + 1), j \in 0..Len(gen.x)} :
              /\ StrippedOf(s, gen.x)
              /\ IF IsHex6(WithoutHash(s))
                 THEN UpperFormOf(gen.y, WithoutHash(s))
                 ELSE gen.y = "000000"

\* "#a0a00a" was normalized twice, to "A0A00A" both times
C20_Witness ==
    /\ gen.pcg = "normalized_twice"
    /\ gen.x = "#a0a00a"
    /\ gen.y = "A0A00A"
    /\ gen.z = "A0A00A"


-----------------------------------------------------------------------------
(* Colours *)

\* The text is 6 or 8 hexadecimal digits
ValidColor(color) ==
    /\ Len(color) \in {6, 8}
    /\ \A i \in 1..Len(color) : SubSeq(color, i, i) \in HexChars

\* C21: no colour of the configuration makes the render fail, and every
\* font colour and every fill colour of a cell of a rendered workbook is 6 or
\* 8 hexadecimal digits.
C21_ColorsNormalized ==
    /\ gen.pcg = "raised" =>
          gen.raised \in {"Error creating Excel report: " \o MsgSheetNotDict,
                          "Error creating Excel report: " \o MsgSave}
    /\ Rendered =>
          \A k \in 1..Len(gen.wb.sheets) :
              \A p \in Positions(gen.wb.sheets[k]) :
                  LET cell == gen.wb.sheets[k].cells[p]
                  IN  /\ cell.font.color # None => ValidColor(cell.font.color)
                      /\ cell.fill.color # None => ValidColor(cell.fill.color)


-----------------------------------------------------------------------------
(* ExcelStructureParser: a structure written with save_workbook and read
   back with parse_from_file.  The structures carry no style, comment or
   hyperlink; Optional[Dict] fields hold the empty function for None, which
   create_workbook_from_structure treats as {} (both are falsy). *)

\* cell.coordinate in merged_range, for a CellRange <<start, end>>
InRange(p, r) ==
    /\ r[1][1] <= p[1] /\ p[1] <= r[2][1]
    /\ r[1][2] <= p[2] /\ p[2] <= r[2][2]

\* The worksheet create_workbook_from_structure makes of one SheetStructure:
\* the cells in the order of the list (a formula replaces the value, a later
\* definition of a position replaces an earlier one), then the merges (every
\* cell of a merged range but its top-left one is emptied), the dimensions
\* and the freeze panes (the library stores 'A1' as no freeze at all)
StructureSheet(sheet_structure, title) ==
    LET cells == sheet_structure.cells
        Defined == {cells[i].position : i \in DOMAIN cells}
        Last(p) == cells[Max({i \in DOMAIN cells : cells[i].position = p})]
        ValueOf(cell_def) ==
            IF cell_def.formula \notin {None, ""}
            THEN StrValue(cell_def.formula) ELSE cell_def.value
        merged_ranges ==
            {cells[i].merge_range : i \in DOMAIN cells} \ {<<>>}
        InMerge == {p \in (1..(MaxRows + 1)) \X (1..2) :
                        \E r \in merged_ranges : InRange(p, r)}
        Emptied == {p \in InMerge :
                        \E r \in merged_ranges : InRange(p, r) /\ p # r[1]}
    IN  [title |-> title,
         cells |-> [p \in Defined \cup InMerge |->
                       IF p \in Emptied \/ p \notin Defined THEN NoneValue
                       ELSE ValueOf(Last(p))],
         merged_cells |-> merged_ranges,
         column_dimensions |-> sheet_structure.column_widths,
         row_dimensions |-> sheet_structure.row_heights,
         freeze_panes |->
             IF sheet_structure.freeze_panes \in {None, "", "A1"} THEN None
             ELSE sheet_structure.freeze_panes]

\* for sheet_structure in structure.sheets: workbook.create_sheet(title=...)
RECURSIVE CreateSheetsFrom(_, _)
CreateSheetsFrom(wb, sheets) ==
    IF sheets = <<>> THEN wb
    ELSE CreateSheetsFrom(
            [wb EXCEPT !.sheets = Append(@,
                StructureSheet(Head(sheets), UniqueTitle(wb, Head(sheets).name, 0)))],
            Tail(sheets))

\* create_workbook_from_structure: the default sheet of Workbook() is
\* removed before the sheets of the structure are created
create_workbook_from_structure(structure) ==
    CreateSheetsFrom([NewWorkbook EXCEPT !.sheets = <<>>], structure.sheets)

\* workbook.save refuses a workbook without a visible sheet
MsgNoSheet == "At least one sheet must be visible"

\* The SheetStructure parse_from_file makes of a worksheet: the cells that
\* hold a value, row by row, each with the first merged range it lies in
ParsedSheet(worksheet) ==
    LET Valued == {p \in DOMAIN worksheet.cells : worksheet.cells[p] # NoneValue}
        Before(p, q) == p[1] < q[1] \/ (p[1] = q[1] /\ p[2] < q[2])
        order == CHOOSE f \in [1..Cardinality(Valued) -> Valued] :
                    \A i, j \in 1..Cardinality(Valued) : i < j => Before(f[i], f[j])
        IsFormula(value) ==
            value.type = "str" /\ Len(value.text) > 1 /\ SubSeq(value.text, 1, 1) = "="
        Ranges(p) == {r \in worksheet.merged_cells : InRange(p, r)}
        CellOf(p) ==
            LET value == worksheet.cells[p]
            IN  [position |-> p,
                 cell_type |-> IF IsFormula(value) THEN "formula"
                               ELSE IF p[1] = 1 THEN "header" ELSE "data",
                 value |-> value,
                 formula |-> IF IsFormula(value) THEN value.text ELSE None,
                 merge_range |-> IF Ranges(p) = {} THEN <<>>
                                 ELSE CHOOSE r \in Ranges(p) : TRUE]
        Truthy(d) == [k \in {k \in DOMAIN d : d[k] # 0} |-> d[k]]
    IN  [name |-> worksheet.title,
         cells |-> [i \in 1..Cardinality(Valued) |-> CellOf(order[i])],
         column_widths |-> Truthy(worksheet.column_dimensions),
         row_heights |-> Truthy(worksheet.row_dimensions),
         freeze_panes |-> worksheet.freeze_panes]

\* parse_from_file of the file a workbook was saved to
parse_from_file(workbook) ==
    [sheets |-> [k \in 1..Len(workbook.sheets) |-> ParsedSheet(workbook.sheets[k])]]

\* The cell definitions, sheets and structures of the round trip
CellDefinitions ==
    [position : (1..MaxRows) \X {1},
     cell_type : {"data"},
     value : {StrValue("x"), IntValue(5), NoneValue},
     formula : {None, "=A1"},
     merge_range : {<<>>, <<<<1, 1>>, <<2, 1>>>>}]
CellLists ==
    {<<>>} \cup {<<c>> : c \in CellDefinitions}
           \cup {<<c, d>> : c \in CellDefinitions, d \in CellDefinitions}
PlainCell ==
    [position |-> <<1, 1>>, cell_type |-> "data", value |-> StrValue("x"),
     formula |-> None, merge_range |-> <<>>]
NoDimensions == [k \in {} |-> 0]
SheetStructures(name) ==
    {[name |-> name, cells |-> cells, column_widths |-> NoDimensions,
      row_heights |-> NoDimensions, freeze_panes |-> None] : cells \in CellLists}
    \cup
    {[name |-> name, cells |-> <<PlainCell>>, column_widths |-> w,
      row_heights |-> h, freeze_panes |-> f] :
        w \in {NoDimensions, [k \in {"A"} |-> 12], [k \in {"A", "B"} |-> IF k = "A" THEN 0 ELSE 12]},
        h \in {NoDimensions, [k \in {2} |-> 15]},
        f \in {None, "A1", "B2"}}
PlainSheet(name) ==
    [name |-> name, cells |-> <<PlainCell>>, column_widths |-> NoDimensions,
     row_heights |-> NoDimensions, freeze_panes |-> "B2"]
RECURSIVE NamedSheets(_)
NamedSheets(n) ==
    IF n = 0 THEN {<<>>}
    ELSE LET shorter == NamedSheets(n - 1)
         IN  shorter \cup
             {Append(l, PlainSheet(name)) : l \in {s \in shorter : Len(s) = n - 1},
                                            name \in {"A", "B"}}
WorkbookStructures ==
    {[sheets |-> <<sheet>>] : sheet \in SheetStructures("A")}
    \cup {[sheets |-> l] : l \in NamedSheets(MaxSheets)}

\* parser.save_workbook(path, structure) is about to be called
StructureCall(structure) == [pcg |-> "structure", structure |-> structure]

\* save_workbook: the workbook of the structure is written to the path
SaveWorkbook ==
    /\ gen.pcg = "structure"
    /\ LET workbook == create_workbook_from_structure(gen.structure)
       IN  gen' = IF workbook.sheets = <<>>
                  THEN [pcg |-> "raised", structure |-> gen.structure,
                        raised |-> MsgNoSheet]
                  ELSE [pcg |-> "saved", structure |-> gen.structure,
                        file |-> workbook]
    /\ UNCHANGED <<jobs, obj, pc, running, exc, result_path, files, now, polled>>

\* parse_from_file(path) of the file just written
ParseFromFile ==
    /\ gen.pcg = "saved"
    /\ gen' = [pcg |-> "parsed", structure |-> gen.structure, file |-> gen.file,
               parsed |-> parse_from_file(gen.file)]
    /\ UNCHANGED <<jobs, obj, pc, running, exc, result_path, files, now, polled>>

InitRoundTrip ==
    /\ jobs = {}
    /\ obj = <<>>
    /\ pc = [id \in JobIds |-> "none"]
    /\ running = NoJob
    /\ exc = [id \in JobIds |-> None]
    /\ result_path = [id \in JobIds |-> None]
    /\ files = {}
    /\ now = 0
    /\ polled = <<>>
    /\ gen \in {StructureCall(s) : s \in WorkbookStructures}

NextRoundTrip == SaveWorkbook \/ ParseFromFile

SpecRoundTrip == InitRoundTrip /\ [][NextRoundTrip]_vars

\* The cells of a sheet structure that lie in a merge range it declares
\* without being the range's top-left cell: they carry no value of their own
NonAnchor(sheet) ==
    {p \in (1..(MaxRows + 1)) \X (1..2) :
        \E i \in DOMAIN sheet.cells :
            /\ sheet.cells[i].merge_range # <<>>
            /\ InRange(p, sheet.cells[i].merge_range)
            /\ p # sheet.cells[i].merge_range[1]}

\* The value a sheet structure sets at a position: the one of the last
\* definition of the position
SetValue(sheet, p) ==
    sheet.cells[Max({i \in DOMAIN sheet.cells : sheet.cells[i].position = p})].value

\* The parsed sheet t reproduces the values, merges, dimensions and freeze
\* panes the sheet s sets
Reproduces(s, t) ==
    /\ \A i \in DOMAIN s.cells :
          LET p == s.cells[i].position
          IN  (SetValue(s, p) # NoneValue /\ p \notin NonAnchor(s)) =>
                 \E j \in DOMAIN t.cells :
                    t.cells[j].position = p /\ t.cells[j].value = SetValue(s, p)
    /\ \A i \in DOMAIN s.cells :
          LET r == s.cells[i].merge_range
          IN  (r # <<>> /\ \E j \in DOMAIN t.cells : t.cells[j].position = r[1]) =>
                 \E j \in DOMAIN t.cells : t.cells[j].merge_range = r
    /\ \A k \in DOMAIN s.column_widths :
          k \in DOMAIN t.column_widths /\ t.column_widths[k] = s.column_widths[k]
    /\ \A k \in DOMAIN s.row_heights :
          k \in DOMAIN t.row_heights /\ t.row_heights[k] = s.row_heights[k]
    /\ s.freeze_panes # None => t.freeze_panes = s.freeze_panes

\* C22: parse_from_file of the file save_workbook(s) wrote has the sheets of
\* s in their order and, in each of them, every value s sets at its
\* position, every merge range, column width, row height and the freeze-pane
\* address s sets.
C22_RoundTrip ==
    gen.pcg = "parsed" =>
        LET s == gen.structure.sheets
            t == gen.parsed.sheets
        IN  /\ Len(t) = Len(s)
            /\ \A k \in 1..Len(s) :
                  t[k].name = s[k].name /\ Reproduces(s[k], t[k])


-----------------------------------------------------------------------------
(* POST /report/generate-excel next to the job service *)

\* generate_excel_report_endpoint at time t: the name (lines 39-45), the
\* directory (48-49), the path (52), generate_excel_report_from_dict (55)
\* and the response, or the HTTPException of the except clause (63-67)
generate_excel_report_endpoint(request, t, dirsOk, saveOk) ==
    LET filename ==
            IF request.filename = None \/ request.filename = ""
            THEN "report_" \o Strftime(t) \o ".xlsx"
            ELSE IF ~EndsWith(request.filename, ".xlsx")
                 THEN request.filename \o ".xlsx"
                 ELSE request.filename
        output_path == OutputPath(filename)
        r == create_report(request.config, output_path, saveOk)
    IN  IF ~dirsOk
        THEN [pcg |-> "response", request |-> request, at |-> t, status_code |-> 400,
              detail |-> "Error generating Excel report: " \o MsgMakedirs,
              file_path |-> None]
        ELSE IF r.raised # None
        THEN [pcg |-> "response", request |-> request, at |-> t, status_code |-> 400,
              detail |-> "Error generating Excel report: Error generating report: "
                            \o r.raised,
              file_path |-> None]
        ELSE [pcg |-> "response", request |-> request, at |-> t, status_code |-> 200,
              detail |-> "Excel report generated successfully",
              file_path |-> r.path]

\* One request served by the endpoint: it holds no await, so it runs from
\* its first to its last statement while no task has the loop
GenerateExcelEndpoint(request) ==
    /\ LoopFree
    /\ \E dirsOk, saveOk \in BOOLEAN :
         /\ gen' = generate_excel_report_endpoint(request, now, dirsOk, saveOk)
         /\ files' = IF gen'.status_code = 200
                     THEN WriteFile(files, gen'.file_path, NoJob)
                     ELSE files
    /\ UNCHANGED <<jobs, obj, pc, running, exc, result_path, now, polled>>

\* The requests of the two generation paths: no name, a bare name, a name
\* with the extension, and an absolute name
FilenameRequests ==
    {[config |-> CfgOneSheet, filename |-> name] :
        name \in {None, "q", "q.xlsx", "/tmp/q"}}

NextFilename ==
    \/ \E req \in FilenameRequests : CreateReportJob(req.config, req.filename)
    \/ \E req \in FilenameRequests : GenerateExcelEndpoint(req)
    \/ \E id \in JobIds : TaskStep(id)

SpecFilename == Init /\ [][NextFilename]_vars

\* The name the request's file is to get at time t: the timestamped one for
\* a request without a name, the name itself when it ends in ".xlsx", the
\* name with ".xlsx" appended otherwise
ClaimedName(filename, t) ==
    IF filename = None \/ filename = "" THEN "report_" \o Strftime(t) \o ".xlsx"
    ELSE IF EndsWith(filename, ".xlsx") THEN filename
    ELSE filename \o ".xlsx"

\* The file of that name in the reports directory
InReports(filename) == ReportsDir \o "/" \o filename

\* C23: every generation request, to create_report_job or to the
\* generate-excel endpoint, gets an output name that ends in ".xlsx" (the
\* timestamped name when none was given, the given name when it ends in
\* ".xlsx", the given name with ".xlsx" appended otherwise), and the file is
\* written in the reports directory under that name.
C23_OutputFilename ==
    [][/\ \A req \in FilenameRequests :
             CreateReportJob(req.config, req.filename) =>
                \A id \in Created' \ Created :
                    /\ obj'[id].filename = ClaimedName(req.filename, now)
                    /\ EndsWith(obj'[id].filename, ".xlsx")
       /\ \A id \in JobIds :
             (TaskGenerate(id) /\ result_path'[id] # None) =>
                /\ result_path'[id] = InReports(obj[id].filename)
                /\ Exists(files', InReports(obj[id].filename))
       /\ \A req \in FilenameRequests :
             (GenerateExcelEndpoint(req) /\ gen'.status_code = 200) =>
                /\ EndsWith(ClaimedName(req.filename, now), ".xlsx")
                /\ gen'.file_path = InReports(ClaimedName(req.filename, now))
                /\ Exists(files', InReports(ClaimedName(req.filename, now)))
      ]_vars


-----------------------------------------------------------------------------
\* The jobs in the registry whose task has ended after the generator saved
\* their workbook
RenderedJobs ==
    {id \in jobs : pc[id] = "done" /\ result_path[id] # None}

\* C24: a job writes one path, the one of its filename; two jobs of one
\* filename (given, or both unnamed in one second) have the same path, the
\* file there is the one the later render wrote, and the file_path of both
\* names it; two jobs of different filenames have different paths.
C24_OnePathPerFilename ==
    /\ \A id \in jobs : \A f \in files :
          f.content = id => f.path = OutputPath(obj[id].filename)
    /\ \A a, b \in RenderedJobs :
          a # b =>
             IF obj[a].filename = obj[b].filename
             THEN /\ result_path[a] = result_path[b]
                  /\ \E f \in files : f.path = result_path[a] /\ f.content \in {a, b}
                  /\ obj[a].file_path = result_path[a]
                  /\ obj[b].file_path = result_path[b]
             ELSE result_path[a] # result_path[b]


-----------------------------------------------------------------------------
\* C25: a job's fields are changed by the steps of its own background task
\* only: a step of the task of one job leaves every other job as it is,
\* create_report_job adds one entry to the registry and changes no job that
\* exists, get_job_status changes neither the registry nor a job, and
\* cleanup_old_jobs only takes entries out, leaving the jobs that remain as
\* they are.
C25_JobFrame ==
    [][/\ \A id \in JobIds :
             TaskStep(id) =>
                /\ jobs' = jobs
                /\ \A other \in Created \ {id} : obj'[other] = obj[other]
       /\ \A req \in Requests :
             CreateReportJob(req.config, req.filename) =>
                /\ jobs \subseteq jobs'
                /\ Cardinality(jobs' \ jobs) = 1
                /\ \A id \in Created : obj'[id] = obj[id]
       /\ \A job_id \in JobIds :
             GetJobStatus(job_id) => jobs' = jobs /\ obj' = obj
       /\ CleanupOldJobs =>
             /\ jobs' \subseteq jobs
             /\ obj' = obj
      ]_vars

\* One job's task has ended while another job is still pending, the
\* registry has been polled and the sweep has taken a job out
C25_Witness ==
    /\ \E a, b \in Created :
          a # b /\ pc[a] = "done" /\ obj[a].status = FAILED /\ obj[b].status = PENDING
    /\ polled # Unpolled
    /\ jobs # Created


-----------------------------------------------------------------------------
\* C26: cleanup_old_jobs removes only jobs that are completed or failed: a
\* job that is pending or processing stays in the registry at every run of
\* the sweep, whatever its age.
C26_SweepKeepsUnfinished ==
    [][CleanupOldJobs =>
          \A id \in jobs \ jobs' : obj[id].status \in Final]_vars


-----------------------------------------------------------------------------
(* DELETE /report/delete/{filename} next to the sweep *)

\* delete_report: 404 when the file is not in the reports directory, 400
\* when the name does not end in ".xlsx", else os.remove, which removes the
\* file or raises (500)
delete_report(filename, fs, removeOk) ==
    LET file_path == OutputPath(filename)
    IN  IF ~Exists(fs, file_path)
        THEN [pcg |-> "deleted", filename |-> filename, status_code |-> 404, files |-> fs]
        ELSE IF ~EndsWith(filename, ".xlsx")
        THEN [pcg |-> "deleted", filename |-> filename, status_code |-> 400, files |-> fs]
        ELSE IF ~removeOk
        THEN [pcg |-> "deleted", filename |-> filename, status_code |-> 500, files |-> fs]
        ELSE [pcg |-> "deleted", filename |-> filename, status_code |-> 200,
              files |-> RemoveFile(fs, file_path)]

\* One request served by delete_report
DeleteReport(filename) ==
    /\ LoopFree
    /\ \E removeOk \in BOOLEAN :
         LET r == delete_report(filename, files, removeOk)
         IN  /\ files' = r.files
             /\ gen' = [pcg |-> r.pcg, filename |-> r.filename,
                        status_code |-> r.status_code]
    /\ UNCHANGED <<jobs, obj, pc, running, exc, result_path, now, polled>>

\* The names delete_report is called with
DeleteNames == {"q.xlsx", "q"}

NextRetention ==
    \/ CleanupOldJobs
    \/ Tick
    \/ \E filename \in DeleteNames : DeleteReport(filename)

SpecRetention == InitSweep /\ [][NextRetention]_vars

-----------------------------------------------------------------------------
(* ChatService.delete_chat and add_message: coroutines over the chats and
   messages collections; the event loop may run another call at every
   await.  The collections and the calls in progress are held in gen. *)

\* The chat ids and user ids of the calls: chat "c1" belongs to "owner",
\* no chat has the id "c9"
ChatIdValues == {"c1", "c9"}
UserIds == {"owner", "other"}

\* A call of delete_chat(chat_id, user_id) or add_message(chat_id, user_id,
\* message_data) that has not run its first statement
ChatCalls ==
    [op : {"delete_chat", "add_message"}, chat_id : ChatIdValues,
     user_id : UserIds, pc : {"start"}, result : {None}]

\* One chat with one message, and MaxCalls calls about to run
InitChat ==
    /\ jobs = {}
    /\ obj = <<>>
    /\ pc = [id \in JobIds |-> "none"]
    /\ running = NoJob
    /\ exc = [id \in JobIds |-> None]
    /\ result_path = [id \in JobIds |-> None]
    /\ files = {}
    /\ now = 0
    /\ polled = Unpolled
    /\ \E calls \in [1..MaxCalls -> ChatCalls] :
          gen = [pcg |-> "chat",
                 chats |-> {[_id |-> "c1", user_id |-> "owner", message_count |-> 1]},
                 messages |-> {[_id |-> 0, chat_id |-> "c1"]},
                 calls |-> calls]

\* The call c of the run is at the statement named by its pc
ChatAt(c, op, at) ==
    /\ gen.pcg = "chat"
    /\ c \in DOMAIN gen.calls
    /\ gen.calls[c].op = op
    /\ gen.calls[c].pc = at

\* delete_chat: await messages_collection.delete_many({"chat_id": chat_id})
ChatDeleteMany(c) ==
    /\ ChatAt(c, "delete_chat", "start")
    /\ gen' = [gen EXCEPT
                 !.messages = {m \in @ : m.chat_id # gen.calls[c].chat_id},
                 !.calls[c].pc = "delete_one"]
    /\ UNCHANGED <<jobs, obj, pc, running, exc, result_path, files, now, polled>>

\* delete_chat: await chats_collection.delete_one({"_id": ..., "user_id":
\* user_id}) and return result.deleted_count > 0
ChatDeleteOne(c) ==
    /\ ChatAt(c, "delete_chat", "delete_one")
    /\ LET matched == {chat \in gen.chats :
                          /\ chat._id = gen.calls[c].chat_id
                          /\ chat.user_id = gen.calls[c].user_id}
       IN  gen' = [gen EXCEPT
                     !.chats = @ \ matched,
                     !.calls[c].pc = "returned",
                     !.calls[c].result = IF matched # {} THEN "True" ELSE "False"]
    /\ UNCHANGED <<jobs, obj, pc, running, exc, result_path, files, now, polled>>

\* add_message: await chats_collection.find_one({"_id": ..., "user_id":
\* user_id}); ValueError when there is no such chat
ChatFindOne(c) ==
    /\ ChatAt(c, "add_message", "start")
    /\ LET found == \E chat \in gen.chats :
                        /\ chat._id = gen.calls[c].chat_id
                        /\ chat.user_id = gen.calls[c].user_id
       IN  gen' = IF found
                  THEN [gen EXCEPT !.calls[c].pc = "insert_one"]
                  ELSE [gen EXCEPT !.calls[c].pc = "raised",
                                   !.calls[c].result = "Chat not found or access denied"]
    /\ UNCHANGED <<jobs, obj, pc, running, exc, result_path, files, now, polled>>

\* add_message: await messages_collection.insert_one(message_doc); the
\* message gets an _id no other document has
ChatInsertOne(c) ==
    /\ ChatAt(c, "add_message", "insert_one")
    /\ gen' = [gen EXCEPT
                 !.messages = @ \cup {[_id |-> c, chat_id |-> gen.calls[c].chat_id]},
                 !.calls[c].pc = "update_one"]
    /\ UNCHANGED <<jobs, obj, pc, running, exc, result_path, files, now, polled>>

\* add_message: await chats_collection.update_one({"_id": ...}, {"$inc":
\* {"message_count": 1}, ...}) and return the message
ChatUpdateOne(c) ==
    /\ ChatAt(c, "add_message", "update_one")
    /\ gen' = [gen EXCEPT
                 !.chats = {IF chat._id = gen.calls[c].chat_id
                            THEN [chat EXCEPT !.message_count = @ + 1]
                            ELSE chat : chat \in @},
                 !.calls[c].pc = "returned",
                 !.calls[c].result = "MessageResponse"]
    /\ UNCHANGED <<jobs, obj, pc, running, exc, result_path, files, now, polled>>

NextChat ==
    \/ \E c \in 1..MaxCalls : ChatDeleteMany(c)
    \/ \E c \in 1..MaxCalls : ChatDeleteOne(c)
    \/ \E c \in 1..MaxCalls : ChatFindOne(c)
    \/ \E c \in 1..MaxCalls : ChatInsertOne(c)
    \/ \E c \in 1..MaxCalls : ChatUpdateOne(c)

SpecChat == InitChat /\ [][NextChat]_vars

\* The call c is a delete_chat whose user owns the chat it names
OwnerDelete(c) ==
    /\ gen.calls[c].op = "delete_chat"
    /\ \E chat \in gen.chats :
          chat._id = gen.calls[c].chat_id /\ chat.user_id = gen.calls[c].user_id

\* C28: a delete_chat call whose user does not own the chat, or whose chat
\* id names no chat, returns false and leaves the chats and the messages as
\* they are; only the owner's call removes messages.
C28_ForeignDeleteChangesNothing ==
    [][\A c \in 1..MaxCalls :
          ((ChatDeleteMany(c) \/ ChatDeleteOne(c)) /\ ~OwnerDelete(c)) =>
              /\ gen'.chats = gen.chats
              /\ gen'.messages = gen.messages
              /\ gen'.calls[c].pc = "returned" => gen'.calls[c].result = "False"]_vars

\* C29: once a delete_chat call of the owner has returned true and every
\* call has finished, no stored message has the chat's id, however the calls
\* of add_message were interleaved with it.
C29_NoMessageOutlivesChat ==
    gen.pcg = "chat" =>
        \A c \in DOMAIN gen.calls :
            (/\ gen.calls[c].op = "delete_chat"
             /\ gen.calls[c].result = "True"
             /\ \A d \in DOMAIN gen.calls : gen.calls[d].pc \in {"returned", "raised"}) =>
                \A m \in gen.messages : m.chat_id # gen.calls[c].chat_id


-----------------------------------------------------------------------------
(* complete_folder_file_upload: requests that add a file to folder "d1".
   The folder document's fileIds and the requests in progress are held in
   gen; no folder has the id "d9". *)

\* A request complete_folder_file_upload(folder_id, file_id) that has not
\* run its first statement
FolderCalls ==
    [folder_id : {"d1", "d9"}, file_id : {"f1", "f2"}, pc : {"start"},
     folder : {<<>>}, status_code : {0}]

InitFolder ==
    /\ jobs = {}
    /\ obj = <<>>
    /\ pc = [id \in JobIds |-> "none"]
    /\ running = NoJob
    /\ exc = [id \in JobIds |-> None]
    /\ result_path = [id \in JobIds |-> None]
    /\ files = {}
    /\ now = 0
    /\ polled = Unpolled
    /\ \E calls \in [1..MaxCalls -> FolderCalls], fileIds \in {<<>>, <<"f1">>} :
          gen = [pcg |-> "folder", fileIds |-> fileIds, calls |-> calls]

\* The request c is at the statement named by its pc
FolderAt(c, at) ==
    /\ gen.pcg = "folder"
    /\ c \in DOMAIN gen.calls
    /\ gen.calls[c].pc = at

\* folder = await folder_service.get_folder_by_id(folder_id, user): the
\* request keeps the document as it is now; 404 when there is no folder
FolderGet(c) ==
    /\ FolderAt(c, "start")
    /\ gen' = IF gen.calls[c].folder_id = "d1"
              THEN [gen EXCEPT !.calls[c].pc = "file_metadata",
                               !.calls[c].folder = gen.fileIds]
              ELSE [gen EXCEPT !.calls[c].pc = "returned",
                               !.calls[c].status_code = 404]
    /\ UNCHANGED <<jobs, obj, pc, running, exc, result_path, files, now, polled>>

\* file_metadata = await file_storage_service.get_file_metadata(file_id,
\* user): the file is there
FolderFileMetadata(c) ==
    /\ FolderAt(c, "file_metadata")
    /\ gen' = [gen EXCEPT !.calls[c].pc = "update"]
    /\ UNCHANGED <<jobs, obj, pc, running, exc, result_path, files, now, polled>>

\* if file_id not in folder.fileIds: await update_folder(folder_id,
\* FolderUpdate(fileIds=folder.fileIds + [file_id], ...)), which sets the
\* document's fileIds to the list it is given; then the response
FolderUpdateFileIds(c) ==
    /\ FolderAt(c, "update")
    /\ LET call == gen.calls[c]
           present == \E i \in DOMAIN call.folder : call.folder[i] = call.file_id
       IN  gen' = [gen EXCEPT
                     !.fileIds = IF present THEN @
                                 ELSE Append(call.folder, call.file_id),
                     !.calls[c].pc = "returned",
                     !.calls[c].status_code = 200]
    /\ UNCHANGED <<jobs, obj, pc, running, exc, result_path, files, now, polled>>

NextFolder ==
    \/ \E c \in 1..MaxCalls : FolderGet(c)
    \/ \E c \in 1..MaxCalls : FolderFileMetadata(c)
    \/ \E c \in 1..MaxCalls : FolderUpdateFileIds(c)

SpecFolder == InitFolder /\ [][NextFolder]_vars

\* C30: when two requests that add different files to one folder have both
\* succeeded, the folder's fileIds holds both file ids; and fileIds never
\* holds one id twice.
C30_NoLostFileId ==
    gen.pcg = "folder" =>
        /\ \A i, j \in DOMAIN gen.fileIds : i # j => gen.fileIds[i] # gen.fileIds[j]
        /\ \A c, d \in DOMAIN gen.calls :
              (/\ gen.calls[c].file_id # gen.calls[d].file_id
               /\ gen.calls[c].folder_id = gen.calls[d].folder_id
               /\ gen.calls[c].status_code = 200
               /\ gen.calls[d].status_code = 200) =>
                  \A id \in {gen.calls[c].file_id, gen.calls[d].file_id} :
                      \E i \in DOMAIN gen.fileIds : gen.fileIds[i] = id

=============================================================================
